---- MODULE Spec2Model ----
(***************************************************************************)
(* Model of automapper-gen: the static validator (internal/validator) and  *)
(* the per-field strategy selection of the MapFrom generator               *)
(* (internal/generator).                                                   *)
(*                                                                         *)
(* A type text ("*pkg.T", "[]T") is a sequence of tokens; the tokens "*",  *)
(* "[]" and "." are the pointer sigil, the slice sigil and the package     *)
(* separator, every other token is an identifier.  Names of DTOs, sources, *)
(* fields and functions are strings, "" being Go's empty string.           *)
(***************************************************************************)
EXTENDS Integers, Sequences, FiniteSets, TLC

\* ------------------------------------------------------------------ bounds
\* Longest wrapper prefix ("*", "[]") of the type texts drawn by Init.
MaxWrap == 2
\* Largest number of nested-reference fields in a schema of the cycle family.
MaxNested == 3
\* Largest number of fields of the DTO of the field-list family.
MaxFields == 2

\* ------------------------------------------------------- strings (tokens)
\* strings.HasPrefix(s, tok) for a one-token prefix
HasPrefix(s, tok) == Len(s) > 0 /\ s[1] = tok

\* strings.TrimPrefix(s, tok) for a one-token prefix
TrimPrefix(s, tok) == IF HasPrefix(s, tok) THEN Tail(s) ELSE s

\* strings.Contains(s, tok)
Contains(s, tok) == \E i \in 1..Len(s) : s[i] = tok

\* parts := strings.Split(s, "."); parts[len(parts)-1]
LastSegment(s) ==
    LET dots == {i \in 1..Len(s) : s[i] = "."}
        last == IF dots = {} THEN 0 ELSE CHOOSE i \in dots : \A j \in dots : j <= i
    IN  SubSeq(s, last + 1, Len(s))

\* extractBaseType removes pointer and slice prefixes
extractBaseType(typeStr) == TrimPrefix(TrimPrefix(typeStr, "*"), "[]")

\* extractTypeInfo: the FieldTypeInfo the parser builds for a source field
extractTypeInfo(t) ==
    IF HasPrefix(t, "*")
    THEN [Type |-> t, IsPointer |-> TRUE, IsSlice |-> FALSE, BaseType |-> Tail(t)]
    ELSE IF HasPrefix(t, "[]")
    THEN [Type |-> t, IsPointer |-> FALSE, IsSlice |-> TRUE, BaseType |-> Tail(t)]
    ELSE [Type |-> t, IsPointer |-> FALSE, IsSlice |-> FALSE, BaseType |-> t]

\* areTypesCompatible checks if two types can be directly assigned
areTypesCompatible(type1, type2) ==
    LET base1 == extractBaseType(type1)
        base2 == extractBaseType(type2)
    IN  \/ base1 = base2
        \/ /\ Contains(base1, ".") /\ ~Contains(base2, ".")
           /\ LastSegment(base1) = base2
        \/ /\ Contains(base2, ".") /\ ~Contains(base1, ".")
           /\ LastSegment(base2) = base1

\* IsSafeConverterSignature: func(T) U
IsSafeConverterSignature(fn) == Len(fn.ParamTypes) = 1 /\ Len(fn.ReturnTypes) = 1

\* IsErrorReturningConverterSignature that does not look at the second result
IsErrorReturningConverterSignature_AnySecond(fn) ==
    Len(fn.ParamTypes) = 1 /\ Len(fn.ReturnTypes) = 2

\* IsErrorReturningConverterSignature: func(T) (U, error)
IsErrorReturningConverterSignature(fn) ==
    IF Len(fn.ParamTypes) # 1 \/ Len(fn.ReturnTypes) # 2
    THEN FALSE
    ELSE fn.ReturnTypes[2] = "error"

\* ------------------------------------------------------------------ state
VARIABLES
    dtos,       \* Validator.dtos: DTO name -> DTOMapping
    sources,    \* Validator.sources: source name -> SourceStruct
    functions,  \* Validator.functions: function name -> FunctionInfo
    cfg,        \* config.Config (Converters: the converter-name table)
    pc,         \* position of Validate / of the generator
    result,     \* ValidationResult: Errors, Warnings, Stats
    totals,     \* Validate's locals totalFields, totalBidirectional
    todo,       \* DTO names "range v.dtos" has not yet yielded
    cur,        \* the DTO, the index into dto.Sources and into dto.Fields
    visited,    \* canReach: the visited map of the running search
    stack,      \* canReach: the activation records, innermost last
    callee,     \* canReach: the argument "from" of the call being entered
    ret,        \* canReach: the value being returned to the caller
    expanded,   \* per search, how often each name passed the visited test
    examined,   \* the (DTO, source, field) triples validateField was called on
    methods,    \* generator: (DTO, source) -> emitted MapFrom plan
    reverse,    \* generator: (DTO, target) -> emitted MapTo plan
    run,        \* one call of an emitted method: its arguments and its progress
    converters,    \* emitted registry: name -> registered function
    convertersMu,  \* emitted sync.RWMutex: writer inside, readers inside, writers waiting
    frames,        \* per goroutine, its activation records, innermost last
    calls,         \* per goroutine, the calls it has made
    outcome        \* per goroutine, what its last call returned

vars == <<dtos, sources, functions, cfg, pc, result, totals, todo, cur,
          visited, stack, callee, ret, expanded, examined, methods, reverse, run,
          converters, convertersMu, frames, calls, outcome>>

schemaVars == <<dtos, sources, functions, cfg>>
searchVars == <<visited, stack, callee, ret, expanded>>
emitVars == <<reverse, run>>
registryVars == <<converters, convertersMu, frames, calls, outcome>>

\* ------------------------------------------------------------ diagnostics
SeverityError == "error"
SeverityWarning == "warning"

\* ValidationError; Message is the format string's tag followed by its names
ValidationError(dto, source, field, message, severity, fixable, suggestion) ==
    [DTO |-> dto, Source |-> source, Field |-> field, Message |-> message,
     Severity |-> severity, Fixable |-> fixable, Suggestion |-> suggestion]

NoDiag == [Errors |-> <<>>, Warnings |-> <<>>]
OneError(e) == [Errors |-> <<e>>, Warnings |-> <<>>]
OneWarning(w) == [Errors |-> <<>>, Warnings |-> <<w>>]
Join(a, b) == [Errors |-> a.Errors \o b.Errors, Warnings |-> a.Warnings \o b.Warnings]

\* result.Errors = append(result.Errors, ...); result.Warnings likewise
Record(res, d) ==
    [res EXCEPT !.Errors = @ \o d.Errors, !.Warnings = @ \o d.Warnings]

\* ---------------------------------------------------- messages, suggestions
MsgConverterSignature == "Converter function has invalid signature"
MsgInverterNoConverter == "Inverter references non-existent converter"
MsgInverterNotConverter == "Inverter references function which is not marked as a converter"
MsgInverterSignature == "Inverter function has invalid signature"
MsgNestedInMapTo == "Nested DTO fields are not supported in MapTo and will be skipped"
MsgNoInverter == "Converter has no inverter, field will be skipped in MapTo"
MsgNotMarked == "Function used as converter but not marked with //automapper:converter"
MsgSourceStruct == "Source struct not found"
MsgSourceField == "Source field not found"
MsgSourceFieldZero == "Source field not found, will use zero value"
MsgNestedNotFound == "Nested DTO not found"
MsgCircular == "Circular dependency detected"
MsgSliceMismatch == "Incompatible slice/non-slice types"
MsgConverterNotFound == "Converter function not found"
MsgIdenticalTypes == "Converter specified but types are identical"
MsgTypeMismatch == "Type mismatch (cannot convert without converter)"
MsgPointerConversion == "Pointer conversion"

SuggestSignature == "Change signature to either func(T) U or func(T) (U, error)"
SuggestAnnotate == "Add //automapper:converter annotation to function"
SuggestFlatten == "Consider flattening the structure or waiting for nested DTO support in MapTo"
SuggestInverter == "Add an inverter function with //automapper:inverter annotation"
SuggestDefineSource == "Ensure the source is defined in the package or included in external packages"
SuggestCheckName == "Check if field name is correct or remove mapping configuration"
SuggestIgnoreTag == "Add 'automapper:-' tag to explicitly ignore, or add source field"
SuggestDefineDTO == "Ensure the nested DTO is defined with automapper:from annotation"
SuggestNoCycle == "Remove circular references or use a converter instead"
SuggestSlices == "Both source and destination must be slices or both must be single values"
SuggestAddFunction == "Add function with //automapper:converter annotation"
SuggestRemoveConverter == "Remove converter tag for direct assignment or verify this is intentional"
SuggestConverterTag == "Add converter tag: automapper:converter=YourConverter"
SuggestVerifyPointer == "Verify this pointer conversion is intentional"

\* -------------------------------------------------- validator: functions
\* validateConverterFunctions, the body of its loop for one function
validateConverterFunction(fn) ==
    IF fn.IsConverter /\ ~fn.IsInverter
       /\ ~IsSafeConverterSignature(fn) /\ ~IsErrorReturningConverterSignature(fn)
    THEN OneError(ValidationError("", "", "", <<MsgConverterSignature, fn.Name>>,
                                  SeverityError, FALSE, SuggestSignature))
    ELSE NoDiag

\* the inverter-signature test of validateInverterRelationships
inverterSignatureInvalid(fn) ==
    ~IsSafeConverterSignature(fn) /\ ~IsErrorReturningConverterSignature(fn)

\* validateInverterRelationships, the body of its loop for one function
validateInverterRelationship(fn) ==
    IF ~(fn.IsInverter /\ fn.InvertsFunc # "")
    THEN NoDiag
    ELSE IF fn.InvertsFunc \notin DOMAIN functions
    THEN OneError(ValidationError("", "", "",
                                  <<MsgInverterNoConverter, fn.Name, fn.InvertsFunc>>,
                                  SeverityError, FALSE, SuggestAnnotate))
    ELSE Join(
        IF ~functions[fn.InvertsFunc].IsConverter
        THEN OneError(ValidationError("", "", "",
                                      <<MsgInverterNotConverter, fn.Name, fn.InvertsFunc>>,
                                      SeverityError, FALSE, SuggestAnnotate))
        ELSE NoDiag,
        IF inverterSignatureInvalid(fn)
        THEN OneError(ValidationError("", "", "", <<MsgInverterSignature, fn.Name>>,
                                      SeverityError, FALSE, SuggestSignature))
        ELSE NoDiag)

\* "for _, fn := range v.functions" in the order the map yields the names
RECURSIVE OverFunctions(_, _)
OverFunctions(order, which) ==
    IF order = <<>> THEN NoDiag
    ELSE Join(IF which = "converters"
              THEN validateConverterFunction(functions[Head(order)])
              ELSE validateInverterRelationship(functions[Head(order)]),
              OverFunctions(Tail(order), which))

\* the orders in which a map may yield the keys in S
Orders(S) == {o \in [1..Cardinality(S) -> S] : \A i, j \in DOMAIN o : i # j => o[i] # o[j]}

\* ----------------------------------------------------- validator: fields
\* resolveSourceFieldName determines the source field name
resolveSourceFieldName(field) ==
    IF field.FieldTag # "" THEN field.FieldTag ELSE field.Name

\* validateField that only ever warns about a missing source field
validateFieldMissing_AlwaysWarning(dto, sourceName, field) ==
    OneWarning(ValidationError(dto.Name, sourceName, field.Name,
                               <<MsgSourceFieldZero, resolveSourceFieldName(field)>>,
                               SeverityWarning, TRUE, SuggestIgnoreTag))

\* validateField when the resolved name is not a field of the source
validateFieldMissing(dto, sourceName, field) ==
    IF field.FieldTag # "" \/ field.ConverterTag # "" \/ field.NestedDTO # ""
    THEN OneError(ValidationError(dto.Name, sourceName, field.Name,
                                  <<MsgSourceField, resolveSourceFieldName(field)>>,
                                  SeverityError, FALSE, SuggestCheckName))
    ELSE OneWarning(ValidationError(dto.Name, sourceName, field.Name,
                                    <<MsgSourceFieldZero, resolveSourceFieldName(field)>>,
                                    SeverityWarning, TRUE, SuggestIgnoreTag))

\* validateNestedDTO up to the existence test of the nested DTO
nestedDTOMissing(dto, sourceName, field) ==
    OneError(ValidationError(dto.Name, sourceName, field.Name,
                             <<MsgNestedNotFound, field.NestedDTO>>,
                             SeverityError, FALSE, SuggestDefineDTO))

\* validateNestedDTO that forgets the slice compatibility test
validateNestedDTOAfterSearch_NoSliceCheck(dto, sourceName, field, sourceField, circular) ==
    IF circular
    THEN OneError(ValidationError(dto.Name, sourceName, field.Name,
                                  <<MsgCircular, field.NestedDTO>>,
                                  SeverityError, FALSE, SuggestNoCycle))
    ELSE NoDiag

\* validateNestedDTO from the result of detectCircularDependency on
validateNestedDTOAfterSearch(dto, sourceName, field, sourceField, circular) ==
    IF circular
    THEN OneError(ValidationError(dto.Name, sourceName, field.Name,
                                  <<MsgCircular, field.NestedDTO>>,
                                  SeverityError, FALSE, SuggestNoCycle))
    ELSE IF HasPrefix(field.Type, "[]") # sourceField.IsSlice
    THEN OneError(ValidationError(dto.Name, sourceName, field.Name, <<MsgSliceMismatch>>,
                                  SeverityError, FALSE, SuggestSlices))
    ELSE NoDiag

\* validateConverter validates converter-based mappings
validateConverter(dto, sourceName, field, sourceField) ==
    IF field.ConverterTag \notin DOMAIN functions
    THEN OneError(ValidationError(dto.Name, sourceName, field.Name,
                                  <<MsgConverterNotFound, field.ConverterTag>>,
                                  SeverityError, FALSE, SuggestAddFunction))
    ELSE IF ~functions[field.ConverterTag].IsConverter
    THEN OneError(ValidationError(dto.Name, sourceName, field.Name,
                                  <<MsgNotMarked, field.ConverterTag>>,
                                  SeverityError, FALSE, SuggestAnnotate))
    ELSE IF extractBaseType(sourceField.Type) = extractBaseType(field.Type)
    THEN OneWarning(ValidationError(dto.Name, sourceName, field.Name, <<MsgIdenticalTypes>>,
                                    SeverityWarning, TRUE, SuggestRemoveConverter))
    ELSE NoDiag

\* validateDirectMapping that rejects a pointer conversion
validateDirectMapping_PointerError(dto, sourceName, field, sourceField) ==
    IF ~areTypesCompatible(extractBaseType(field.Type), sourceField.BaseType)
    THEN OneError(ValidationError(dto.Name, sourceName, field.Name, <<MsgTypeMismatch>>,
                                  SeverityError, TRUE, SuggestConverterTag))
    ELSE IF HasPrefix(field.Type, "*") # sourceField.IsPointer
    THEN OneError(ValidationError(dto.Name, sourceName, field.Name,
                                  <<MsgPointerConversion>>,
                                  SeverityError, FALSE, SuggestVerifyPointer))
    ELSE NoDiag

\* validateDirectMapping validates direct field-to-field mappings
validateDirectMapping(dto, sourceName, field, sourceField) ==
    LET dtoBaseType == extractBaseType(field.Type)
        srcBaseType == sourceField.BaseType
    IN  IF ~areTypesCompatible(dtoBaseType, srcBaseType)
        THEN OneError(ValidationError(dto.Name, sourceName, field.Name, <<MsgTypeMismatch>>,
                                      SeverityError, TRUE, SuggestConverterTag))
        ELSE IF HasPrefix(field.Type, "*") # sourceField.IsPointer
        THEN OneWarning(ValidationError(dto.Name, sourceName, field.Name,
                                        <<MsgPointerConversion>>,
                                        SeverityWarning, FALSE, SuggestVerifyPointer))
        ELSE NoDiag

\* validateBidirectionalMapping that records the missing inverter as an Error
validateBidirectionalField_InverterError(dto, sourceName, field) ==
    IF field.Ignore \/ field.NestedDTO # "" \/ field.ConverterTag = ""
       \/ field.ConverterTag \notin DOMAIN functions
    THEN NoDiag
    ELSE IF ~\E f \in DOMAIN functions :
                functions[f].IsInverter /\ functions[f].InvertsFunc = field.ConverterTag
    THEN OneError(ValidationError(dto.Name, sourceName, field.Name,
                                  <<MsgNoInverter, field.ConverterTag>>,
                                  SeverityError, TRUE, SuggestInverter))
    ELSE NoDiag

\* validateBidirectionalMapping, the body of its loop for one field
validateBidirectionalField(dto, sourceName, field) ==
    IF field.Ignore THEN NoDiag
    ELSE IF field.NestedDTO # ""
    THEN OneWarning(ValidationError(dto.Name, sourceName, field.Name, <<MsgNestedInMapTo>>,
                                    SeverityWarning, FALSE, SuggestFlatten))
    ELSE IF field.ConverterTag = "" \/ field.ConverterTag \notin DOMAIN functions
    THEN NoDiag
    ELSE Join(
        IF ~\E f \in DOMAIN functions :
               functions[f].IsInverter /\ functions[f].InvertsFunc = field.ConverterTag
        THEN OneWarning(ValidationError(dto.Name, sourceName, field.Name,
                                        <<MsgNoInverter, field.ConverterTag>>,
                                        SeverityWarning, TRUE, SuggestInverter))
        ELSE NoDiag,
        IF ~functions[field.ConverterTag].IsConverter
        THEN OneError(ValidationError(dto.Name, sourceName, field.Name,
                                      <<MsgNotMarked, field.ConverterTag>>,
                                      SeverityError, FALSE, SuggestAnnotate))
        ELSE NoDiag)

\* validateBidirectionalMapping performs additional validation for bidirectional DTOs
RECURSIVE validateBidirectionalFields(_, _, _)
validateBidirectionalFields(dto, sourceName, fields) ==
    IF fields = <<>> THEN NoDiag
    ELSE Join(validateBidirectionalField(dto, sourceName, Head(fields)),
              validateBidirectionalFields(dto, sourceName, Tail(fields)))

validateBidirectionalMapping(dto, sourceName) ==
    IF sourceName \notin DOMAIN sources
    THEN NoDiag
    ELSE validateBidirectionalFields(dto, sourceName, dto.Fields)

\* ------------------------------------------------------ Validate, by steps
Dto == dtos[cur.dto]
SourceName == Dto.Sources[cur.si]
Field == Dto.Fields[cur.fi]
SourceField == sources[SourceName].Fields[resolveSourceFieldName(Field)]

NoSearch ==
    /\ visited = {}
    /\ stack = <<>>
    /\ callee = ""
    /\ ret = FALSE
    /\ expanded = [n \in {} |-> 0]

\* Validate up to and including validateConverterFunctions
ValidateConverterFunctions ==
    /\ pc = "converters"
    /\ \E order \in Orders(DOMAIN functions) :
          result' = Record([result EXCEPT
                               !.Stats.total_dtos = Cardinality(DOMAIN dtos),
                               !.Stats.total_sources = Cardinality(DOMAIN sources)],
                           OverFunctions(order, "converters"))
    /\ pc' = "inverters"
    /\ UNCHANGED <<schemaVars, registryVars, emitVars, totals, todo, cur, searchVars, examined, methods>>

\* validateInverterRelationships validates that inverters reference valid converters
ValidateInverterRelationships ==
    /\ pc = "inverters"
    /\ \E order \in Orders(DOMAIN functions) :
          result' = Record(result, OverFunctions(order, "inverters"))
    /\ pc' = "dtos"
    /\ UNCHANGED <<schemaVars, registryVars, emitVars, totals, todo, cur, searchVars, examined, methods>>

\* "for _, dto := range v.dtos": the map yields one more DTO
NextDTO ==
    /\ pc = "dtos"
    /\ \E d \in todo :
          /\ todo' = todo \ {d}
          /\ cur' = [dto |-> d, si |-> 1, fi |-> 1]
          /\ totals' = [totalFields |-> totals.totalFields + Len(dtos[d].Fields),
                        totalBidirectional |-> totals.totalBidirectional
                                               + (IF dtos[d].Bidirectional THEN 1 ELSE 0)]
    /\ pc' = "sources"
    /\ UNCHANGED <<schemaVars, registryVars, emitVars, result, searchVars, examined, methods>>

\* "for _, sourceName := range dto.Sources" is exhausted
SourcesDone ==
    /\ pc = "sources"
    /\ cur.si > Len(Dto.Sources)
    /\ pc' = "dtos"
    /\ UNCHANGED <<schemaVars, registryVars, emitVars, result, totals, todo, cur, searchVars, examined, methods>>

\* validateDTOMapping of a source that is not declared, and the call of
\* validateBidirectionalMapping that returns at once for such a source
ValidateDTOMappingNoSource ==
    /\ pc = "sources"
    /\ cur.si <= Len(Dto.Sources)
    /\ SourceName \notin DOMAIN sources
    /\ result' = Record(
           Record(result,
                  OneError(ValidationError(Dto.Name, SourceName, "", <<MsgSourceStruct>>,
                                           SeverityError, FALSE, SuggestDefineSource))),
           IF Dto.Bidirectional THEN validateBidirectionalMapping(Dto, SourceName)
           ELSE NoDiag)
    /\ cur' = [cur EXCEPT !.si = @ + 1]
    /\ UNCHANGED <<schemaVars, registryVars, emitVars, pc, totals, todo, searchVars, examined, methods>>

\* validateDTOMapping of a declared source enters its loop over dto.Fields
ValidateDTOMapping ==
    /\ pc = "sources"
    /\ cur.si <= Len(Dto.Sources)
    /\ SourceName \in DOMAIN sources
    /\ cur' = [cur EXCEPT !.fi = 1]
    /\ pc' = "fields"
    /\ UNCHANGED <<schemaVars, registryVars, emitVars, result, totals, todo, searchVars, examined, methods>>

\* the loop over dto.Fields is exhausted: validateDTOMapping returns
FieldsDone ==
    /\ pc = "fields"
    /\ cur.fi > Len(Dto.Fields)
    /\ IF Dto.Bidirectional
       THEN pc' = "bidirectional" /\ cur' = cur
       ELSE pc' = "sources" /\ cur' = [cur EXCEPT !.si = @ + 1]
    /\ UNCHANGED <<schemaVars, registryVars, emitVars, result, totals, todo, searchVars, examined, methods>>

\* validateDTOMapping skips an ignored field
SkipIgnoredField ==
    /\ pc = "fields"
    /\ cur.fi <= Len(Dto.Fields)
    /\ Field.Ignore
    /\ cur' = [cur EXCEPT !.fi = @ + 1]
    /\ UNCHANGED <<schemaVars, registryVars, emitVars, pc, result, totals, todo, searchVars, examined, methods>>

FieldCalled ==
    /\ pc = "fields"
    /\ cur.fi <= Len(Dto.Fields)
    /\ ~Field.Ignore
    /\ examined' = examined \cup {<<Dto.Name, SourceName, Field.Name>>}

Bound == resolveSourceFieldName(Field) \in DOMAIN sources[SourceName].Fields

\* validateField whose Error for a missing source field ends the loop over
\* the fields of the DTO
ValidateFieldMissing_Abort ==
    /\ FieldCalled
    /\ ~Bound
    /\ result' = Record(result, validateFieldMissing(Dto, SourceName, Field))
    /\ cur' = [cur EXCEPT !.fi = IF validateFieldMissing(Dto, SourceName, Field).Errors # <<>>
                                 THEN Len(Dto.Fields) + 1 ELSE @ + 1]
    /\ UNCHANGED <<schemaVars, registryVars, emitVars, pc, totals, todo, searchVars, methods>>

\* validateField: the source field does not exist
ValidateFieldMissing ==
    /\ FieldCalled
    /\ ~Bound
    /\ result' = Record(result, validateFieldMissing(Dto, SourceName, Field))
    /\ cur' = [cur EXCEPT !.fi = @ + 1]
    /\ UNCHANGED <<schemaVars, registryVars, emitVars, pc, totals, todo, searchVars, methods>>

\* validateField -> validateNestedDTO: the nested DTO is not declared
ValidateNestedDTOMissing ==
    /\ FieldCalled
    /\ Bound
    /\ Field.NestedDTO # ""
    /\ Field.NestedDTO \notin DOMAIN dtos
    /\ result' = Record(result, nestedDTOMissing(Dto, SourceName, Field))
    /\ cur' = [cur EXCEPT !.fi = @ + 1]
    /\ UNCHANGED <<schemaVars, registryVars, emitVars, pc, totals, todo, searchVars, methods>>

\* validateField -> validateNestedDTO -> detectCircularDependency: a fresh
\* visited map, and canReach(nestedDTO, currentDTO, visited) is called
DetectCircularDependency ==
    /\ FieldCalled
    /\ Bound
    /\ Field.NestedDTO # ""
    /\ Field.NestedDTO \in DOMAIN dtos
    /\ visited' = {}
    /\ expanded' = [n \in {} |-> 0]
    /\ stack' = <<>>
    /\ callee' = Field.NestedDTO
    /\ ret' = FALSE
    /\ pc' = "call"
    /\ UNCHANGED <<schemaVars, registryVars, emitVars, result, totals, todo, cur, methods>>

\* validateField -> validateConverter
ValidateConverter ==
    /\ FieldCalled
    /\ Bound
    /\ Field.NestedDTO = ""
    /\ Field.ConverterTag # ""
    /\ result' = Record(result, validateConverter(Dto, SourceName, Field, SourceField))
    /\ cur' = [cur EXCEPT !.fi = @ + 1]
    /\ UNCHANGED <<schemaVars, registryVars, emitVars, pc, totals, todo, searchVars, methods>>

\* validateField -> validateDirectMapping
ValidateDirectMapping ==
    /\ FieldCalled
    /\ Bound
    /\ Field.NestedDTO = ""
    /\ Field.ConverterTag = ""
    /\ result' = Record(result, validateDirectMapping(Dto, SourceName, Field, SourceField))
    /\ cur' = [cur EXCEPT !.fi = @ + 1]
    /\ UNCHANGED <<schemaVars, registryVars, emitVars, pc, totals, todo, searchVars, methods>>

\* canReach that forgets the from == to test: no cycle is ever found
canReachEntry_NoSelf(from, to, vis) ==
    IF from \in vis THEN "false" ELSE "expand"

\* canReach that forgets the visited test: a name may be expanded again
canReachEntry_NoVisited(from, to, vis) ==
    IF from = to THEN "true" ELSE "expand"

\* canReach, its tests before the loop: "true" (from == to), "false" (already
\* visited) or "expand" (mark from visited and look at its fields)
canReachEntry(from, to, vis) ==
    IF from = to THEN "true"
    ELSE IF from \in vis THEN "false"
    ELSE "expand"

\* the nested DTO named by the field the loop of canReach stands at, "" if none
canReachEdge(field) == field.NestedDTO

Top == stack[Len(stack)]

\* canReach(from, to, visited) is entered with from = callee, to = the DTO
\* being validated
CanReachCall ==
    /\ pc = "call"
    /\ LET entry == canReachEntry(callee, cur.dto, visited)
       IN  IF entry = "expand"
           THEN /\ visited' = visited \cup {callee}
                /\ expanded' = [n \in DOMAIN expanded \cup {callee} |->
                                   IF n = callee
                                   THEN (IF n \in DOMAIN expanded THEN expanded[n] ELSE 0) + 1
                                   ELSE expanded[n]]
                /\ IF callee \in DOMAIN dtos
                   THEN /\ stack' = Append(stack, [from |-> callee, i |-> 1])
                        /\ pc' = "loop"
                        /\ ret' = ret
                   ELSE /\ stack' = stack
                        /\ pc' = "return"
                        /\ ret' = FALSE
           ELSE /\ ret' = (entry = "true")
                /\ pc' = "return"
                /\ UNCHANGED <<visited, expanded, stack>>
    /\ UNCHANGED <<schemaVars, registryVars, emitVars, result, totals, todo, cur, callee, examined, methods>>

\* canReach: one iteration of "for _, field := range dto.Fields"
CanReachLoop ==
    /\ pc = "loop"
    /\ LET fields == dtos[Top.from].Fields
       IN  IF Top.i > Len(fields)
           THEN /\ stack' = SubSeq(stack, 1, Len(stack) - 1)
                /\ ret' = FALSE
                /\ pc' = "return"
                /\ callee' = callee
           ELSE IF canReachEdge(fields[Top.i]) # ""
           THEN /\ callee' = canReachEdge(fields[Top.i])
                /\ pc' = "call"
                /\ UNCHANGED <<stack, ret>>
           ELSE /\ stack' = [stack EXCEPT ![Len(stack)].i = @ + 1]
                /\ UNCHANGED <<pc, ret, callee>>
    /\ UNCHANGED <<schemaVars, registryVars, emitVars, result, totals, todo, cur, visited, expanded, examined, methods>>

\* canReach: a recursive call returns into the loop of its caller
CanReachReturn ==
    /\ pc = "return"
    /\ stack # <<>>
    /\ IF ret
       THEN /\ stack' = SubSeq(stack, 1, Len(stack) - 1)
            /\ pc' = pc
       ELSE /\ stack' = [stack EXCEPT ![Len(stack)].i = @ + 1]
            /\ pc' = "loop"
    /\ UNCHANGED <<schemaVars, registryVars, emitVars, result, totals, todo, cur, visited, expanded, callee, ret,
                   examined, methods>>

\* detectCircularDependency returns and validateNestedDTO finishes
ValidateNestedDTO ==
    /\ pc = "return"
    /\ stack = <<>>
    /\ result' = Record(result,
                        validateNestedDTOAfterSearch(Dto, SourceName, Field, SourceField, ret))
    /\ cur' = [cur EXCEPT !.fi = @ + 1]
    /\ pc' = "fields"
    /\ visited' = {}
    /\ expanded' = [n \in {} |-> 0]
    /\ callee' = ""
    /\ ret' = FALSE
    /\ UNCHANGED <<schemaVars, registryVars, emitVars, totals, todo, stack, examined, methods>>

\* validateBidirectionalMapping of a declared source
ValidateBidirectionalMapping ==
    /\ pc = "bidirectional"
    /\ result' = Record(result, validateBidirectionalMapping(Dto, SourceName))
    /\ cur' = [cur EXCEPT !.si = @ + 1]
    /\ pc' = "sources"
    /\ UNCHANGED <<schemaVars, registryVars, emitVars, totals, todo, searchVars, examined, methods>>

\* Validate after its loop over v.dtos: the statistics, and it returns
ValidateReturn ==
    /\ pc = "dtos"
    /\ todo = {}
    /\ result' = [result EXCEPT
                     !.Stats.total_fields = totals.totalFields,
                     !.Stats.bidirectional_dtos = totals.totalBidirectional,
                     !.Stats.errors = Len(result.Errors),
                     !.Stats.warnings = Len(result.Warnings)]
    /\ pc' = "done"
    /\ UNCHANGED <<schemaVars, registryVars, emitVars, totals, todo, cur, searchVars, examined, methods>>

\* IsValid returns true if there are no errors
IsValid == Len(result.Errors) = 0

\* ------------------------------------------------------ generator: MapFrom
\* one emitted statement group: the strategy chosen for a field, the pointer
\* shape it was emitted for, the converter function it invokes ("" if none)
\* and the nested DTO it maps into ("" if none)
Stmt(kind, field, srcIsPointer, dstIsPointer, converter, nested) ==
    [kind |-> kind, field |-> field, srcIsPointer |-> srcIsPointer,
     dstIsPointer |-> dstIsPointer, converter |-> converter, nested |-> nested]

\* a statement group together with the statements emitted for it
Emit(stmt, code) == [code |-> code] @@ stmt

\* ------------------------------------------- generator: emitted statements
\* one emitted statement (a jen.Code value): op with its operands; lhs and rhs
\* are expressions written as token sequences, fn a function or method name,
\* recv the receiver of a method call, text a literal, body a statement list
Code(op, lhs, rhs, fn, recv, text, body) ==
    [op |-> op, lhs |-> lhs, rhs |-> rhs, fn |-> fn, recv |-> recv, text |-> text,
     body |-> body]

\* if x == nil { return errors.New(text) }
GuardNil(x, text) == Code("GuardNil", <<>>, x, <<>>, <<>>, text, <<>>)
\* if x != nil { body }
IfNotNil(x, body) == Code("IfNotNil", <<>>, x, <<>>, <<>>, <<>>, body)
\* { body }
Block(body) == Code("Block", <<>>, <<>>, <<>>, <<>>, <<>>, body)
\* lhs = rhs and lhs := rhs
Assign(lhs, rhs) == Code("Assign", lhs, rhs, <<>>, <<>>, <<>>, <<>>)
\* var name type
Var(name, type) == Code("Var", <<name>>, <<>>, <<>>, <<>>, type, <<>>)
\* lhs = fn(rhs), lhs := fn(rhs) and lhs, err = fn(rhs): withErr tells
\* whether the call has a second result that is stored in err
Invoke(lhs, fn, rhs, withErr) ==
    Code("Invoke", lhs, rhs, fn, <<>>, IF withErr THEN <<"err">> ELSE <<>>, <<>>)
\* err = recv.fn(rhs)
InvokeMethod(recv, fn, rhs) == Code("InvokeMethod", <<"err">>, rhs, fn, recv, <<"err">>, <<>>)
\* if err != nil { return fmt.Errorf("<text>: %w", err) }
IfErrReturn(text) == Code("IfErrReturn", <<>>, <<"err">>, <<>>, <<>>, text, <<>>)
\* for i, item := range rhs { body }
ForRange(rhs, body) == Code("ForRange", <<>>, rhs, <<>>, <<>>, <<>>, body)
\* lhs = make([]elem, len(rhs)) ("len") and lhs = make([]elem, 0, len(rhs)) ("zero")
Make(lhs, elem, size, rhs) == Code("Make", lhs, rhs, <<>>, <<>>, <<size>> \o elem, <<>>)
\* lhs = append(lhs, rhs)
AppendTo(lhs, rhs) == Code("Append", lhs, rhs, <<>>, <<>>, <<>>, <<>>)
\* // text
Comment(text) == Code("Comment", <<>>, <<>>, <<>>, <<>>, text, <<>>)
\* return nil
ReturnNil == Code("Return", <<>>, <<>>, <<>>, <<>>, <<>>, <<>>)

\* ExtractBaseType of the generator package
ExtractBaseType(typeStr) == extractBaseType(typeStr)

\* buildSafeConverterMapping and buildSafeConverterMappingDirect: statements
\* for a safe converter (no error)
buildSafeConverterMapping(dtoField, sourceField, sourceFieldName, function) ==
    LET srcIsPointer == sourceField.IsPointer
        dstIsPointer == HasPrefix(dtoField.Type, "*")
        src == <<"src", ".", sourceFieldName>>
        dst == <<"d", ".", dtoField.Name>>
    IN  IF srcIsPointer
        THEN IF dstIsPointer
             THEN << IfNotNil(src, << Invoke(<<"result">>, <<function>>, <<"*">> \o src, FALSE),
                                      Assign(dst, <<"&", "result">>) >>),
                     Comment(<<dtoField.Name, "nil pointer will result in nil">>) >>
             ELSE << IfNotNil(src, << Invoke(dst, <<function>>, <<"*">> \o src, FALSE) >>),
                     Comment(<<dtoField.Name, "nil pointer will result in zero value">>) >>
        ELSE IF dstIsPointer
        THEN << Block(<< Invoke(<<"result">>, <<function>>, src, FALSE),
                         Assign(dst, <<"&", "result">>) >>) >>
        ELSE << Invoke(dst, <<function>>, src, FALSE) >>

\* buildErrorReturningConverterMapping that stores a value result without
\* looking at the error
buildErrorReturningConverterMapping_Swallow(dtoField, sourceField, sourceFieldName, function) ==
    LET src == <<"src", ".", sourceFieldName>>
        dst == <<"d", ".", dtoField.Name>>
        check == IfErrReturn(<<"converting field", dtoField.Name>>)
    IN  IF sourceField.IsPointer
        THEN IF HasPrefix(dtoField.Type, "*")
             THEN << IfNotNil(src, << Var("result", ExtractBaseType(dtoField.Type)),
                                      Var("err", <<"error">>),
                                      Invoke(<<"result">>, <<function>>, <<"*">> \o src, TRUE),
                                      check,
                                      Assign(dst, <<"&", "result">>) >>) >>
             ELSE << IfNotNil(src, << Var("err", <<"error">>),
                                      Invoke(dst, <<function>>, <<"*">> \o src, TRUE),
                                      check >>) >>
        ELSE IF HasPrefix(dtoField.Type, "*")
        THEN << Block(<< Var("result", ExtractBaseType(dtoField.Type)),
                         Var("err", <<"error">>),
                         Invoke(<<"result">>, <<function>>, src, TRUE),
                         check,
                         Assign(dst, <<"&", "result">>) >>) >>
        ELSE << Block(<< Var("err", <<"error">>),
                         Invoke(dst, <<function>>, src, TRUE) >>) >>

\* buildErrorReturningConverterMapping and its Direct twin: statements for an
\* error-returning converter
buildErrorReturningConverterMapping(dtoField, sourceField, sourceFieldName, function) ==
    LET srcIsPointer == sourceField.IsPointer
        dstIsPointer == HasPrefix(dtoField.Type, "*")
        src == <<"src", ".", sourceFieldName>>
        dst == <<"d", ".", dtoField.Name>>
        check == IfErrReturn(<<"converting field", dtoField.Name>>)
    IN  IF srcIsPointer
        THEN IF dstIsPointer
             THEN << IfNotNil(src, << Var("result", ExtractBaseType(dtoField.Type)),
                                      Var("err", <<"error">>),
                                      Invoke(<<"result">>, <<function>>, <<"*">> \o src, TRUE),
                                      check,
                                      Assign(dst, <<"&", "result">>) >>),
                     Comment(<<dtoField.Name, "nil pointer will result in nil">>) >>
             ELSE << IfNotNil(src, << Var("err", <<"error">>),
                                      Invoke(dst, <<function>>, <<"*">> \o src, TRUE),
                                      check >>),
                     Comment(<<dtoField.Name, "nil pointer will result in zero value">>) >>
        ELSE IF dstIsPointer
        THEN << Block(<< Var("result", ExtractBaseType(dtoField.Type)),
                         Var("err", <<"error">>),
                         Invoke(<<"result">>, <<function>>, src, TRUE),
                         check,
                         Assign(dst, <<"&", "result">>) >>) >>
        ELSE << Block(<< Var("err", <<"error">>),
                         Invoke(dst, <<function>>, src, TRUE),
                         check >>) >>

\* buildNestedSliceMapping, Case 1: []T -> []DTO
sliceValueToValue(dst, src, dtoTypeName, methodName, check) ==
    << Block(<< Make(dst, <<dtoTypeName>>, "len", src),
                ForRange(src, << Var("err", <<"error">>),
                                 InvokeMethod(dst \o <<"[", "i", "]">>, methodName,
                                              <<"&", "item">>),
                                 check >>) >>) >>

\* buildNestedSliceMapping, Case 2: []*T -> []*DTO
slicePointerToPointer(dst, src, dtoTypeName, methodName, check) ==
    << Block(<< Make(dst, <<"*", dtoTypeName>>, "len", src),
                ForRange(src, << IfNotNil(<<"item">>,
                                    << Assign(<<"nested">>, <<"&", "new", dtoTypeName>>),
                                       Var("err", <<"error">>),
                                       InvokeMethod(<<"nested">>, methodName, <<"item">>),
                                       check,
                                       Assign(dst \o <<"[", "i", "]">>, <<"nested">>) >>)
                              >>) >>) >>

\* buildNestedSliceMapping, Case 3: []T -> []*DTO
sliceValueToPointer(dst, src, dtoTypeName, methodName, check) ==
    << Block(<< Make(dst, <<"*", dtoTypeName>>, "len", src),
                ForRange(src, << Assign(<<"nested">>, <<"&", "new", dtoTypeName>>),
                                 Var("err", <<"error">>),
                                 InvokeMethod(<<"nested">>, methodName, <<"&", "item">>),
                                 check,
                                 Assign(dst \o <<"[", "i", "]">>, <<"nested">>) >>) >>) >>

\* buildNestedSliceMapping, Case 4: []*T -> []DTO
slicePointerToValue(dst, src, dtoTypeName, methodName, check) ==
    << Block(<< Make(dst, <<dtoTypeName>>, "zero", src),
                ForRange(src, << IfNotNil(<<"item">>,
                                    << Var("nested", <<dtoTypeName>>),
                                       Var("err", <<"error">>),
                                       InvokeMethod(<<"nested">>, methodName, <<"item">>),
                                       check,
                                       AppendTo(dst, <<"nested">>) >>) >>) >>) >>

\* Case 4 that makes the destination with the source's length and appends
slicePointerToValue_Presized(dst, src, dtoTypeName, methodName, check) ==
    << Block(<< Make(dst, <<dtoTypeName>>, "len", src),
                ForRange(src, << IfNotNil(<<"item">>,
                                    << Var("nested", <<dtoTypeName>>),
                                       Var("err", <<"error">>),
                                       InvokeMethod(<<"nested">>, methodName, <<"item">>),
                                       check,
                                       AppendTo(dst, <<"nested">>) >>) >>) >>) >>

\* Case 3 that allocates one nested DTO before the loop and stores it in
\* every slot
sliceValueToPointer_Shared(dst, src, dtoTypeName, methodName, check) ==
    << Block(<< Make(dst, <<"*", dtoTypeName>>, "len", src),
                Assign(<<"nested">>, <<"&", "new", dtoTypeName>>),
                ForRange(src, << Var("err", <<"error">>),
                                 InvokeMethod(<<"nested">>, methodName, <<"&", "item">>),
                                 check,
                                 Assign(dst \o <<"[", "i", "]">>, <<"nested">>) >>) >>) >>

\* buildNestedSliceMapping with the presized Case 4
buildNestedSliceMapping_Presized(dtoField, sourceField, sourceFieldName, dtoTypeName, methodName) ==
    LET dtoElemIsPointer == HasPrefix(TrimPrefix(dtoField.Type, "[]"), "*")
        srcElemIsPointer == HasPrefix(TrimPrefix(sourceField.Type, "[]"), "*")
        src == <<"src", ".", sourceFieldName>>
        dst == <<"d", ".", dtoField.Name>>
        check == IfErrReturn(<<"mapping nested field", dtoField.Name, "[i]">>)
    IN  IF ~srcElemIsPointer /\ ~dtoElemIsPointer
        THEN sliceValueToValue(dst, src, dtoTypeName, methodName, check)
        ELSE IF srcElemIsPointer /\ dtoElemIsPointer
        THEN slicePointerToPointer(dst, src, dtoTypeName, methodName, check)
        ELSE IF ~srcElemIsPointer /\ dtoElemIsPointer
        THEN sliceValueToPointer(dst, src, dtoTypeName, methodName, check)
        ELSE slicePointerToValue_Presized(dst, src, dtoTypeName, methodName, check)

\* buildNestedSliceMapping with the shared allocation in Case 3
buildNestedSliceMapping_Shared(dtoField, sourceField, sourceFieldName, dtoTypeName, methodName) ==
    LET dtoElemIsPointer == HasPrefix(TrimPrefix(dtoField.Type, "[]"), "*")
        srcElemIsPointer == HasPrefix(TrimPrefix(sourceField.Type, "[]"), "*")
        src == <<"src", ".", sourceFieldName>>
        dst == <<"d", ".", dtoField.Name>>
        check == IfErrReturn(<<"mapping nested field", dtoField.Name, "[i]">>)
    IN  IF ~srcElemIsPointer /\ ~dtoElemIsPointer
        THEN sliceValueToValue(dst, src, dtoTypeName, methodName, check)
        ELSE IF srcElemIsPointer /\ dtoElemIsPointer
        THEN slicePointerToPointer(dst, src, dtoTypeName, methodName, check)
        ELSE IF ~srcElemIsPointer /\ dtoElemIsPointer
        THEN sliceValueToPointer_Shared(dst, src, dtoTypeName, methodName, check)
        ELSE slicePointerToValue(dst, src, dtoTypeName, methodName, check)

\* buildNestedSliceMapping handles slice to slice nested DTO mappings
buildNestedSliceMapping(dtoField, sourceField, sourceFieldName, dtoTypeName, methodName) ==
    LET dtoElemType == TrimPrefix(dtoField.Type, "[]")
        srcElemType == TrimPrefix(sourceField.Type, "[]")
        dtoElemIsPointer == HasPrefix(dtoElemType, "*")
        srcElemIsPointer == HasPrefix(srcElemType, "*")
        src == <<"src", ".", sourceFieldName>>
        dst == <<"d", ".", dtoField.Name>>
        check == IfErrReturn(<<"mapping nested field", dtoField.Name, "[i]">>)
    IN  IF ~srcElemIsPointer /\ ~dtoElemIsPointer
        THEN sliceValueToValue(dst, src, dtoTypeName, methodName, check)
        ELSE IF srcElemIsPointer /\ dtoElemIsPointer
        THEN slicePointerToPointer(dst, src, dtoTypeName, methodName, check)
        ELSE IF ~srcElemIsPointer /\ dtoElemIsPointer
        THEN sliceValueToPointer(dst, src, dtoTypeName, methodName, check)
        ELSE IF srcElemIsPointer /\ ~dtoElemIsPointer
        THEN slicePointerToValue(dst, src, dtoTypeName, methodName, check)
        ELSE << Comment(<<dtoField.Name, "unsupported slice mapping">>) >>

\* buildNestedDTOMapping: the statements it returns
buildNestedDTOStatements(dtoField, sourceField, sourceFieldName) ==
    LET dtoTypeName == dtoField.NestedDTO
        methodName == <<"MapFrom">> \o LastSegment(sourceField.BaseType)
        dtoIsPointer == HasPrefix(dtoField.Type, "*")
        dtoIsSlice == HasPrefix(dtoField.Type, "[]")
        srcIsPointer == sourceField.IsPointer
        srcIsSlice == sourceField.IsSlice
        src == <<"src", ".", sourceFieldName>>
        dst == <<"d", ".", dtoField.Name>>
        check == IfErrReturn(<<"mapping nested field", dtoField.Name>>)
        alloc == Assign(<<"nested">>, <<"&", "new", dtoTypeName>>)
        value == Var("nested", <<dtoTypeName>>)
        tail == << check, Assign(dst, <<"nested">>) >>
    IN  IF dtoIsSlice /\ srcIsSlice
        THEN buildNestedSliceMapping(dtoField, sourceField, sourceFieldName,
                                     dtoTypeName, methodName)
        ELSE IF dtoIsPointer /\ srcIsPointer
        THEN << IfNotNil(src, << alloc, Var("err", <<"error">>),
                                 InvokeMethod(<<"nested">>, methodName, src) >> \o tail),
                Comment(<<dtoField.Name, "nil pointer will result in nil">>) >>
        ELSE IF ~dtoIsPointer /\ srcIsPointer
        THEN << IfNotNil(src, << value, Var("err", <<"error">>),
                                 InvokeMethod(<<"nested">>, methodName, src) >> \o tail),
                Comment(<<dtoField.Name, "nil pointer will result in zero value">>) >>
        ELSE IF dtoIsPointer /\ ~srcIsPointer
        THEN << Block(<< alloc, Var("err", <<"error">>),
                         InvokeMethod(<<"nested">>, methodName, <<"&">> \o src) >> \o tail) >>
        ELSE << Block(<< value, Var("err", <<"error">>),
                         InvokeMethod(<<"nested">>, methodName, <<"&">> \o src) >> \o tail) >>

\* buildFieldMapping that dereferences a pointer source without a nil check
buildFieldStatements_Unguarded(dtoField, sourceField, sourceFieldName) ==
    LET dtoIsPointer == HasPrefix(dtoField.Type, "*")
        srcIsPointer == sourceField.IsPointer
        src == <<"src", ".", sourceFieldName>>
        dst == <<"d", ".", dtoField.Name>>
    IN  IF ExtractBaseType(dtoField.Type) # sourceField.BaseType THEN << Assign(dst, src) >>
        ELSE IF dtoIsPointer = srcIsPointer THEN << Assign(dst, src) >>
        ELSE IF srcIsPointer /\ ~dtoIsPointer
        THEN << Assign(dst, <<"*">> \o src) >>
        ELSE << Block(<< Assign(<<"v">>, src), Assign(dst, <<"&", "v">>) >>) >>

\* buildFieldMapping: the statements it returns
buildFieldStatements(dtoField, sourceField, sourceFieldName) ==
    LET dtoIsPointer == HasPrefix(dtoField.Type, "*")
        srcIsPointer == sourceField.IsPointer
        dtoBaseType == ExtractBaseType(dtoField.Type)
        srcBaseType == sourceField.BaseType
        src == <<"src", ".", sourceFieldName>>
        dst == <<"d", ".", dtoField.Name>>
    IN  IF dtoBaseType # srcBaseType THEN << Assign(dst, src) >>
        ELSE IF dtoIsPointer = srcIsPointer THEN << Assign(dst, src) >>
        ELSE IF srcIsPointer /\ ~dtoIsPointer
        THEN << IfNotNil(src, << Assign(dst, <<"*">> \o src) >>),
                Comment(<<dtoField.Name, "nil pointer will result in zero value">>) >>
        ELSE << Block(<< Assign(<<"v">>, src), Assign(dst, <<"&", "v">>) >>) >>

\* buildNestedDTOMapping creates statements for nested DTO mapping
buildNestedDTOMapping(dtoField, sourceField) ==
    LET dtoIsPointer == HasPrefix(dtoField.Type, "*")
        dtoIsSlice == HasPrefix(dtoField.Type, "[]")
        srcIsPointer == sourceField.IsPointer
        srcIsSlice == sourceField.IsSlice
    IN  Emit(Stmt(IF dtoIsSlice /\ srcIsSlice THEN "NestedSlice" ELSE "NestedScalar",
                  dtoField.Name, srcIsPointer, dtoIsPointer, "", dtoField.NestedDTO),
             buildNestedDTOStatements(dtoField, sourceField,
                                      resolveSourceFieldName(dtoField)))

\* buildConverterMapping / buildConverterMappingDirect: safe or error-returning
buildConverterMapping(dtoField, sourceField, function, isSafe) ==
    Emit(Stmt(IF isSafe THEN "SafeConverter" ELSE "ErrorReturningConverter",
              dtoField.Name, sourceField.IsPointer, HasPrefix(dtoField.Type, "*"),
              function, ""),
         IF isSafe
         THEN buildSafeConverterMapping(dtoField, sourceField,
                                        resolveSourceFieldName(dtoField), function)
         ELSE buildErrorReturningConverterMapping(dtoField, sourceField,
                                                  resolveSourceFieldName(dtoField),
                                                  function))

\* buildFieldMapping creates statements for field mapping with pointer conversion
buildFieldMapping(dtoField, sourceField) ==
    Emit(Stmt("Direct", dtoField.Name, sourceField.IsPointer,
              HasPrefix(dtoField.Type, "*"), "", ""),
         buildFieldStatements(dtoField, sourceField, resolveSourceFieldName(dtoField)))

\* converterMap[name] of buildMethodBody: the last entry of cfg.Converters
\* with that name, "" if there is none
converterMap(name) ==
    LET hits == {i \in 1..Len(cfg.Converters) : cfg.Converters[i].Name = name}
    IN  IF hits = {} THEN ""
        ELSE cfg.Converters[CHOOSE i \in hits : \A j \in hits : j <= i].Function

\* buildMethodBody that looks at the converter tag before the nested DTO
buildFieldStatement_ConverterFirst(source, dtoField) ==
    LET sourceFieldName == resolveSourceFieldName(dtoField)
    IN  IF sourceFieldName \notin DOMAIN source.Fields
        THEN Emit(Stmt("NotFoundComment", dtoField.Name, FALSE, FALSE, "", ""),
                  << Comment(<<dtoField.Name, "not found in source, will be zero value">>) >>)
        ELSE LET sourceField == source.Fields[sourceFieldName]
             IN  IF dtoField.ConverterTag # ""
                 THEN IF dtoField.ConverterTag \notin DOMAIN functions
                      THEN Emit(Stmt("ConverterNotFoundComment", dtoField.Name,
                                     FALSE, FALSE, "", ""),
                                << Comment(<<dtoField.Name, "converter not found">>) >>)
                      ELSE buildConverterMapping(
                               dtoField, sourceField, dtoField.ConverterTag,
                               IsSafeConverterSignature(functions[dtoField.ConverterTag]))
                 ELSE IF dtoField.NestedDTO # ""
                 THEN buildNestedDTOMapping(dtoField, sourceField)
                 ELSE buildFieldMapping(dtoField, sourceField)

\* buildMethodBody, the body of its loop for one field that is not ignored
buildFieldStatement(source, dtoField) ==
    LET sourceFieldName == resolveSourceFieldName(dtoField)
    IN  IF sourceFieldName \notin DOMAIN source.Fields
        THEN Emit(Stmt("NotFoundComment", dtoField.Name, FALSE, FALSE, "", ""),
                  << Comment(<<dtoField.Name, "not found in source, will be zero value">>) >>)
        ELSE LET sourceField == source.Fields[sourceFieldName]
             IN  IF dtoField.NestedDTO # ""
                 THEN buildNestedDTOMapping(dtoField, sourceField)
                 ELSE IF dtoField.ConverterTag # ""
                 THEN IF converterMap(dtoField.ConverterTag) = ""
                      THEN IF dtoField.ConverterTag \notin DOMAIN functions
                           THEN Emit(Stmt("ConverterNotFoundComment", dtoField.Name,
                                          FALSE, FALSE, "", ""),
                                     << Comment(<<dtoField.Name, "converter not found">>) >>)
                           ELSE buildConverterMapping(
                                    dtoField, sourceField, dtoField.ConverterTag,
                                    IsSafeConverterSignature(functions[dtoField.ConverterTag]))
                      ELSE LET function == converterMap(dtoField.ConverterTag)
                           IN  buildConverterMapping(
                                   dtoField, sourceField, function,
                                   /\ function \in DOMAIN functions
                                   /\ IsSafeConverterSignature(functions[function]))
                 ELSE buildFieldMapping(dtoField, sourceField)

\* buildMethodBody that emits the statement of a field although it is ignored
RECURSIVE buildMethodBodyLoop_MapsIgnored(_, _)
buildMethodBodyLoop_MapsIgnored(source, fields) ==
    IF fields = <<>> THEN [statements |-> <<>>, ignoredFields |-> <<>>]
    ELSE LET f == Head(fields)
             rest == buildMethodBodyLoop_MapsIgnored(source, Tail(fields))
             st == buildFieldStatement(source, f)
         IN  [statements |-> <<st>> \o rest.statements,
              ignoredFields |->
                  IF f.Ignore \/ st.kind \in {"NotFoundComment", "ConverterNotFoundComment"}
                  THEN <<f.Name>> \o rest.ignoredFields
                  ELSE rest.ignoredFields]

\* buildMethodBody: the statements and the list of ignored field names
RECURSIVE buildMethodBodyLoop(_, _)
buildMethodBodyLoop(source, fields) ==
    IF fields = <<>> THEN [statements |-> <<>>, ignoredFields |-> <<>>]
    ELSE LET f == Head(fields)
             rest == buildMethodBodyLoop(source, Tail(fields))
         IN  IF f.Ignore
             THEN [statements |-> rest.statements,
                   ignoredFields |-> <<f.Name>> \o rest.ignoredFields]
             ELSE LET st == buildFieldStatement(source, f)
                  IN  [statements |-> <<st>> \o rest.statements,
                       ignoredFields |->
                           IF st.kind \in {"NotFoundComment", "ConverterNotFoundComment"}
                           THEN <<f.Name>> \o rest.ignoredFields
                           ELSE rest.ignoredFields]

\* buildMethodBody without the check of the source argument
buildMethodBody_NoGuard(dto, source) ==
    LET body == buildMethodBodyLoop(source, dto.Fields)
    IN  [statements |-> << Emit(Stmt("NilGuard", "", FALSE, FALSE, "", ""),
                                << Comment(<<"source is nil">>) >>) >>
                        \o body.statements
                        \o << Emit(Stmt("ReturnNil", "", FALSE, FALSE, "", ""),
                                   << ReturnNil >>) >>,
         ignoredFields |-> body.ignoredFields]

buildMethodBody(dto, source) ==
    LET body == buildMethodBodyLoop(source, dto.Fields)
    IN  [statements |-> << Emit(Stmt("NilGuard", "", FALSE, FALSE, "", ""),
                                << GuardNil(<<"src">>, <<"source is nil">>) >>) >>
                        \o body.statements
                        \o << Emit(Stmt("ReturnNil", "", FALSE, FALSE, "", ""),
                                   << ReturnNil >>) >>,
         ignoredFields |-> body.ignoredFields]

\* -------------------------------------------------------- generator: MapTo
\* converterMap[tag] of buildMapToMethodBody, a types.ConverterInfo: whether
\* the converter has an inverter, and the inverter function's name
ConverterInfo(tag) ==
    LET inverters == {f \in DOMAIN functions :
                         functions[f].IsInverter /\ functions[f].InvertsFunc = tag}
    IN  [HasConverter |-> tag \in DOMAIN functions /\ functions[tag].IsConverter,
         HasInverter |-> inverters # {},
         InverterFunc |-> IF inverters = {} THEN ""
                          ELSE CHOOSE f \in inverters : TRUE]

\* buildMapToSafeConverterMapping creates statements for safe inverter
buildMapToSafeConverterMapping(dtoField, targetField, targetFieldName, inverterFunc) ==
    LET srcIsPointer == HasPrefix(dtoField.Type, "*")
        dstIsPointer == targetField.IsPointer
        src == <<"d", ".", dtoField.Name>>
        dst == <<"dst", ".", targetFieldName>>
    IN  IF srcIsPointer
        THEN IF dstIsPointer
             THEN << IfNotNil(src, << Invoke(<<"result">>, <<inverterFunc>>, <<"*">> \o src, FALSE),
                                      Assign(dst, <<"&", "result">>) >>) >>
             ELSE << IfNotNil(src, << Invoke(dst, <<inverterFunc>>, <<"*">> \o src, FALSE) >>) >>
        ELSE IF dstIsPointer
        THEN << Block(<< Invoke(<<"result">>, <<inverterFunc>>, src, FALSE),
                         Assign(dst, <<"&", "result">>) >>) >>
        ELSE << Invoke(dst, <<inverterFunc>>, src, FALSE) >>

\* buildMapToErrorReturningConverterMapping creates statements for
\* error-returning inverter
buildMapToErrorReturningConverterMapping(dtoField, targetField, targetFieldName, inverterFunc) ==
    LET srcIsPointer == HasPrefix(dtoField.Type, "*")
        dstIsPointer == targetField.IsPointer
        src == <<"d", ".", dtoField.Name>>
        dst == <<"dst", ".", targetFieldName>>
        check == IfErrReturn(<<"converting field", dtoField.Name>>)
    IN  IF srcIsPointer
        THEN IF dstIsPointer
             THEN << IfNotNil(src, << Invoke(<<"result">>, <<inverterFunc>>, <<"*">> \o src, TRUE),
                                      check,
                                      Assign(dst, <<"&", "result">>) >>) >>
             ELSE << IfNotNil(src, << Var("err", <<"error">>),
                                      Invoke(dst, <<inverterFunc>>, <<"*">> \o src, TRUE),
                                      check >>) >>
        ELSE IF dstIsPointer
        THEN << Block(<< Var("result", targetField.BaseType),
                         Var("err", <<"error">>),
                         Invoke(<<"result">>, <<inverterFunc>>, src, TRUE),
                         check,
                         Assign(dst, <<"&", "result">>) >>) >>
        ELSE << Block(<< Var("err", <<"error">>),
                         Invoke(dst, <<inverterFunc>>, src, TRUE),
                         check >>) >>

\* buildMapToConverterMapping creates statements for converter-based reverse
\* mapping
buildMapToConverterMapping(dtoField, targetField, targetFieldName, inverterFunc, isSafe) ==
    Emit(Stmt(IF isSafe THEN "SafeConverter" ELSE "ErrorReturningConverter",
              dtoField.Name, HasPrefix(dtoField.Type, "*"), targetField.IsPointer,
              inverterFunc, ""),
         IF isSafe
         THEN buildMapToSafeConverterMapping(dtoField, targetField, targetFieldName,
                                             inverterFunc)
         ELSE buildMapToErrorReturningConverterMapping(dtoField, targetField,
                                                       targetFieldName, inverterFunc))

\* buildMapToDirectMapping that stores the address of the DTO's own field
buildMapToDirectMapping_AddressOfField(dtoField, targetField, targetFieldName) ==
    LET srcIsPointer == HasPrefix(dtoField.Type, "*")
        dstIsPointer == targetField.IsPointer
        src == <<"d", ".", dtoField.Name>>
        dst == <<"dst", ".", targetFieldName>>
    IN  Emit(Stmt("Direct", dtoField.Name, srcIsPointer, dstIsPointer, "", ""),
             IF srcIsPointer = dstIsPointer THEN << Assign(dst, src) >>
             ELSE IF srcIsPointer /\ ~dstIsPointer
             THEN << IfNotNil(src, << Assign(dst, <<"*">> \o src) >>) >>
             ELSE << Assign(dst, <<"&">> \o src) >>)

\* buildMapToDirectMapping creates statements for direct field mapping in MapTo
buildMapToDirectMapping(dtoField, targetField, targetFieldName) ==
    LET srcIsPointer == HasPrefix(dtoField.Type, "*")
        dstIsPointer == targetField.IsPointer
        src == <<"d", ".", dtoField.Name>>
        dst == <<"dst", ".", targetFieldName>>
    IN  Emit(Stmt("Direct", dtoField.Name, srcIsPointer, dstIsPointer, "", ""),
             IF srcIsPointer = dstIsPointer THEN << Assign(dst, src) >>
             ELSE IF srcIsPointer /\ ~dstIsPointer
             THEN << IfNotNil(src, << Assign(dst, <<"*">> \o src) >>) >>
             ELSE << Block(<< Assign(<<"v">>, src), Assign(dst, <<"&", "v">>) >>) >>)

\* a field the reverse method skips with a comment
Skipped(dtoField, text) ==
    Emit(Stmt("SkippedComment", dtoField.Name, FALSE, FALSE, "", ""),
         << Comment(<<dtoField.Name, text>>) >>)

\* buildMapToMethodBody, the body of its loop for one field that is not ignored
buildMapToFieldStatement(target, dtoField) ==
    LET targetFieldName == IF dtoField.FieldTag # "" THEN dtoField.FieldTag
                           ELSE dtoField.Name
    IN  IF targetFieldName \notin DOMAIN target.Fields
        THEN Skipped(dtoField, "target field not found, skipped")
        ELSE LET targetField == target.Fields[targetFieldName]
                 convInfo == ConverterInfo(dtoField.ConverterTag)
             IN  IF dtoField.NestedDTO # ""
                 THEN Skipped(dtoField, "nested DTO mapping not implemented in MapTo, skipped")
                 ELSE IF dtoField.ConverterTag # ""
                 THEN IF convInfo.HasConverter /\ convInfo.HasInverter
                      THEN buildMapToConverterMapping(
                               dtoField, targetField, targetFieldName,
                               convInfo.InverterFunc,
                               IsSafeConverterSignature(functions[convInfo.InverterFunc]))
                      ELSE Skipped(dtoField, "converter has no inverter, skipped")
                 ELSE IF ExtractBaseType(dtoField.Type) # targetField.BaseType
                 THEN Skipped(dtoField, "type mismatch without converter, skipped")
                 ELSE buildMapToDirectMapping(dtoField, targetField, targetFieldName)

\* buildMapToMethodBody constructs the MapTo method body
RECURSIVE buildMapToMethodBodyLoop(_, _)
buildMapToMethodBodyLoop(target, fields) ==
    IF fields = <<>> THEN [statements |-> <<>>, ignoredFields |-> <<>>]
    ELSE LET f == Head(fields)
             rest == buildMapToMethodBodyLoop(target, Tail(fields))
         IN  IF f.Ignore
             THEN [statements |-> rest.statements,
                   ignoredFields |-> <<f.Name>> \o rest.ignoredFields]
             ELSE LET st == buildMapToFieldStatement(target, f)
                  IN  [statements |-> <<st>> \o rest.statements,
                       ignoredFields |->
                           IF st.kind = "SkippedComment"
                           THEN <<f.Name>> \o rest.ignoredFields
                           ELSE rest.ignoredFields]

buildMapToMethodBody(dto, target) ==
    LET body == buildMapToMethodBodyLoop(target, dto.Fields)
    IN  [statements |-> << Emit(Stmt("NilGuard", "", FALSE, FALSE, "", ""),
                                << GuardNil(<<"dst">>, <<"destination is nil">>) >>) >>
                        \o body.statements
                        \o << Emit(Stmt("ReturnNil", "", FALSE, FALSE, "", ""),
                                   << ReturnNil >>) >>,
         ignoredFields |-> body.ignoredFields]

\* ------------------------------------------- execution of an emitted method
\* a run-time value: nil, a pointer to a location, a scalar or struct value
\* (its content is data), a slice of values or a nil slice
Value(kind, loc, data, elems) == [kind |-> kind, loc |-> loc, data |-> data, elems |-> elems]
Nil == Value("nil", <<>>, <<>>, <<>>)
Ptr(loc) == Value("ptr", loc, <<>>, <<>>)
Val(data) == Value("val", <<>>, data, <<>>)
Slice(elems) == Value("slice", <<>>, <<>>, elems)
NilSlice == Value("nilslice", <<>>, <<>>, <<>>)
\* the zero value of a type
ZeroOf(type) ==
    IF HasPrefix(type, "*") THEN Nil
    ELSE IF HasPrefix(type, "[]") THEN NilSlice
    ELSE Val(<<>>)
\* what a converter function returns for an argument, and what the MapFrom
\* method of a nested DTO leaves in its receiver for a source value
Converted(fn, arg) == Val(fn \o arg.data)
\* the first result of a function that returns an error: the zero value, or
\* whatever value the function chooses to return beside the error
Failed(fn, partial) == IF partial THEN Val(<<"partial">> \o fn) ELSE Val(<<>>)
Mapped(arg) == Val(<<"MapFrom">> \o arg.data)

\* the location an addressable expression names: a field of src, d or dst,
\* or a local variable of the scope
LocOf(e, env) == IF Len(e) = 1 THEN env.locals[e[1]] ELSE e

\* the expression names a field of the method's argument (src in MapFrom, dst
\* in MapTo) and the argument is nil
ThroughNilArg(e, env) == Len(e) >= 3 /\ e[1] \in {"src", "dst"} /\ env.argNil

\* the value of an expression; ok is FALSE when evaluating it panics (a nil
\* pointer dereference or an index out of range)
RECURSIVE Eval(_, _)
Eval(e, env) ==
    IF ThroughNilArg(e, env) THEN [v |-> Nil, ok |-> FALSE]
    ELSE IF e[1] = "*"
    THEN LET p == Eval(Tail(e), env)
         IN  IF p.ok /\ p.v.kind = "ptr"
             THEN [v |-> env.store[p.v.loc], ok |-> TRUE]
             ELSE [v |-> Nil, ok |-> FALSE]
    ELSE IF e[1] = "&" THEN [v |-> Ptr(LocOf(Tail(e), env)), ok |-> TRUE]
    ELSE IF Len(e) = 1 THEN [v |-> env.store[env.locals[e[1]]], ok |-> TRUE]
    ELSE IF Len(e) = 3 THEN [v |-> env.store[e], ok |-> TRUE]
    ELSE LET s == env.store[SubSeq(e, 1, 3)]
         IN  IF env.i \in 1..Len(s.elems)
             THEN [v |-> s.elems[env.i], ok |-> TRUE]
             ELSE [v |-> Nil, ok |-> FALSE]

Panic(env) == [env EXCEPT !.status = "panic"]

\* a new variable of the scope, at a location of its own
Declare(name, v, env) ==
    LET loc == <<name, ToString(env.fresh)>>
    IN  [env EXCEPT !.fresh = @ + 1,
                    !.locals = (name :> loc) @@ @,
                    !.store = (loc :> v) @@ @]

\* store v where lhs names: a local variable (declared here if the scope has
\* none of that name), a field, or an element of a slice field
Write(lhs, v, env) ==
    IF Len(lhs) = 1
    THEN IF lhs[1] \in DOMAIN env.locals
         THEN [env EXCEPT !.store = (env.locals[lhs[1]] :> v) @@ @]
         ELSE Declare(lhs[1], v, env)
    ELSE IF ThroughNilArg(lhs, env) THEN Panic(env)
    ELSE IF Len(lhs) = 3 THEN [env EXCEPT !.store = (lhs :> v) @@ @]
    ELSE LET f == SubSeq(lhs, 1, 3)
             s == env.store[f]
         IN  IF env.i \in 1..Len(s.elems)
             THEN [env EXCEPT !.store =
                      (f :> Slice([s.elems EXCEPT ![env.i] = v])) @@ @]
             ELSE Panic(env)

RECURSIVE Exec(_, _)
RECURSIVE ExecLoop(_, _, _, _)
\* one statement
ExecOne(st, env) ==
    CASE st.op = "GuardNil" ->
            IF env.argNil
            THEN [env EXCEPT !.status = "return", !.err = st.text]
            ELSE env
      [] st.op = "IfNotNil" ->
            LET x == Eval(st.rhs, env)
                inner == Exec(st.body, env)
            IN  IF ~x.ok THEN Panic(env)
                ELSE IF x.v.kind = "nil" THEN env
                ELSE [inner EXCEPT !.locals = env.locals]
      [] st.op = "Block" ->
            [Exec(st.body, env) EXCEPT !.locals = env.locals]
      [] st.op = "Assign" ->
            IF st.rhs[1] = "&" /\ st.rhs[2] = "new"
            THEN LET loc == <<"new", ToString(env.fresh)>>
                     made == [env EXCEPT !.fresh = @ + 1,
                                         !.store = (loc :> Val(<<>>)) @@ @]
                 IN  Write(st.lhs, Ptr(loc), made)
            ELSE LET x == Eval(st.rhs, env)
                 IN  IF x.ok THEN Write(st.lhs, x.v, env) ELSE Panic(env)
      [] st.op = "Var" ->
            IF st.lhs = <<"err">> THEN [env EXCEPT !.err = <<>>]
            ELSE Declare(st.lhs[1], ZeroOf(st.text), env)
      [] st.op = "Invoke" ->
            LET x == Eval(st.rhs, env)
                fails == st.text = <<"err">> /\ st.fn[1] \in env.failing
                called == [env EXCEPT !.invoked = Append(@, st.fn)]
            IN  IF ~x.ok THEN Panic(env)
                ELSE IF fails
                THEN [Write(st.lhs, Failed(st.fn, env.partial), called)
                         EXCEPT !.err = <<"failed">> \o st.fn]
                ELSE [Write(st.lhs, Converted(st.fn, x.v), called) EXCEPT !.err = <<>>]
      [] st.op = "InvokeMethod" ->
            LET x == Eval(st.rhs, env)
                r == Eval(st.recv, env)
                called == [env EXCEPT !.nested = @ + 1]
            IN  IF ~x.ok \/ ~r.ok THEN Panic(env)
                ELSE IF x.v.kind # "ptr"
                THEN [called EXCEPT !.err = <<"source is nil">>, !.nilCall = TRUE]
                ELSE IF called.nested = env.nestedFailAt
                THEN [called EXCEPT !.err = <<"failed">> \o st.fn]
                ELSE IF r.v.kind = "ptr"
                THEN [called EXCEPT !.err = <<>>,
                                    !.store = (r.v.loc :> Mapped(env.store[x.v.loc])) @@ @]
                ELSE [Write(st.recv, Mapped(env.store[x.v.loc]), called) EXCEPT !.err = <<>>]
      [] st.op = "IfErrReturn" ->
            IF env.err # <<>>
            THEN [env EXCEPT !.status = "return", !.err = st.text \o <<":">> \o env.err]
            ELSE env
      [] st.op = "ForRange" ->
            LET x == Eval(st.rhs, env)
            IN  IF ~x.ok THEN Panic(env)
                ELSE [ExecLoop(st.body, x.v.elems, 1, env) EXCEPT !.locals = env.locals,
                                                                  !.i = env.i]
      [] st.op = "Make" ->
            LET x == Eval(st.rhs, env)
                zero == ZeroOf(Tail(st.text))
            IN  IF ~x.ok THEN Panic(env)
                ELSE Write(st.lhs,
                           Slice(IF st.text[1] = "len"
                                 THEN [k \in 1..Len(x.v.elems) |-> zero] ELSE <<>>),
                           env)
      [] st.op = "Append" ->
            LET old == Eval(st.lhs, env)
                x == Eval(st.rhs, env)
            IN  IF ~old.ok \/ ~x.ok THEN Panic(env)
                ELSE Write(st.lhs, Slice(Append(old.v.elems, x.v)), env)
      [] st.op = "Comment" -> env
      [] st.op = "Return" -> [env EXCEPT !.status = "return", !.err = <<>>]

\* a statement list, up to the first return or panic
Exec(stmts, env) ==
    IF stmts = <<>> \/ env.status # "ok" THEN env
    ELSE Exec(Tail(stmts), ExecOne(Head(stmts), env))

\* for i, item := range elems { body }, from index k on
ExecLoop(body, elems, k, env) ==
    IF k > Len(elems) \/ env.status # "ok" THEN env
    ELSE LET entered == Declare("item", elems[k], [env EXCEPT !.i = k])
             after == Exec(body, entered)
         IN  ExecLoop(body, elems, k + 1, [after EXCEPT !.locals = env.locals])

\* the declared (DTO, source) pairs whose source struct exists, and those of
\* them that come before the pair (d, i) in the order the methods are emitted
DTOOrder == <<"A", "B", "C">>
DTOIndex(d) == CHOOSE k \in 1..Len(DTOOrder) : DTOOrder[k] = d
Pairs ==
    {p \in (DOMAIN dtos) \X (1..2) :
        p[2] <= Len(dtos[p[1]].Sources) /\ dtos[p[1]].Sources[p[2]] \in DOMAIN sources}
Before(p, q) ==
    \/ DTOIndex(p[1]) < DTOIndex(q[1])
    \/ p[1] = q[1] /\ p[2] < q[2]

\* the method emitted around a body: func (d *DTO) name(arg *Other) error
Method(body) == [returnsError |-> TRUE] @@ body

\* GenerateMapFromMethod generates a MapFrom method for a DTO and one source,
\* the next pair in the order of the DTOs and of their source lists
GenerateMapFromMethod ==
    /\ pc \in {"done", "generate"}
    /\ \E p \in Pairs :
          LET sourceName == dtos[p[1]].Sources[p[2]]
          IN  /\ <<p[1], sourceName>> \notin DOMAIN methods
              /\ \A q \in Pairs :
                    Before(q, p) => <<q[1], dtos[q[1]].Sources[q[2]]>> \in DOMAIN methods
              /\ methods' = [m \in DOMAIN methods \cup {<<p[1], sourceName>>} |->
                                IF m = <<p[1], sourceName>>
                                THEN Method(buildMethodBody(dtos[p[1]],
                                                            sources[sourceName]))
                                ELSE methods[m]]
    /\ UNCHANGED <<schemaVars, registryVars, emitVars, pc, result, totals, todo, cur, searchVars, examined>>

\* GenerateMapToMethod generates a MapTo method for a bidirectional DTO and
\* one of its sources as the target
GenerateMapToMethod ==
    /\ pc \in {"done", "generate"}
    /\ \E p \in Pairs :
          LET targetName == dtos[p[1]].Sources[p[2]]
          IN  /\ dtos[p[1]].Bidirectional
              /\ <<p[1], targetName>> \notin DOMAIN reverse
              /\ reverse' = [m \in DOMAIN reverse \cup {<<p[1], targetName>>} |->
                                IF m = <<p[1], targetName>>
                                THEN Method(buildMapToMethodBody(dtos[p[1]],
                                                                 sources[targetName]))
                                ELSE reverse[m]]
    /\ UNCHANGED <<schemaVars, registryVars, run, pc, result, totals, todo, cur, searchVars, examined,
                   methods>>

\* ------------------------------------------------- calls of emitted methods
MaxLen == 2

\* no call has been made
NotCalled ==
    [direction |-> "", dto |-> "", other |-> "", pos |-> 0,
     env |-> [status |-> "none"]]

\* the values a caller can put in a field of a type: a scalar, a pointer that
\* is nil or points to a scalar, a slice (nil, or of at most MaxLen elements)
\* of scalars or of such pointers
FieldValues(root, name, type) ==
    LET heap(k) == <<"heap", root, name, ToString(k)>>
    IN  IF HasPrefix(type, "*")
        THEN {[v |-> Nil, cells |-> {}], [v |-> Ptr(heap(0)), cells |-> {heap(0)}]}
        ELSE IF HasPrefix(type, "[]")
        THEN IF HasPrefix(TrimPrefix(type, "[]"), "*")
             THEN {[v |-> NilSlice, cells |-> {}]}
                  \cup UNION {{[v |-> Slice([k \in 1..n |->
                                                IF present[k] THEN Ptr(heap(k)) ELSE Nil]),
                                 cells |-> {heap(k) : k \in {j \in 1..n : present[j]}}] :
                                   present \in [1..n -> BOOLEAN]} : n \in 0..MaxLen}
             ELSE {[v |-> NilSlice, cells |-> {}]}
                  \cup {[v |-> Slice([k \in 1..n |-> Val(<<name, ToString(k)>>)]),
                         cells |-> {}] : n \in 0..MaxLen}
        ELSE {[v |-> Val(<<name>>), cells |-> {}]}

\* the memory at the start of a call: the fields of the object read, as the
\* caller chose them, what its pointers point to, and the zero fields of the
\* object written; absent is the object ("src" or "dst") that the nil
\* argument does not point to, "" if the argument is not nil
Memory(from, fromTypes, to, toTypes, choice, absent) ==
    LET cells == UNION {choice[f].cells : f \in DOMAIN fromTypes}
        locs == {l \in {<<from, ".", f>> : f \in DOMAIN fromTypes}
                        \cup {<<to, ".", f>> : f \in DOMAIN toTypes} \cup cells :
                    l[1] # absent}
    IN  [l \in locs |->
            IF l \in cells THEN Val(l)
            ELSE IF l[1] = from THEN choice[l[3]].v
            ELSE ZeroOf(toTypes[l[3]])]

\* the state of a call about to execute its first statement
Entered(argNil, store, failing, nestedFailAt, partial) ==
    [status |-> "ok", store |-> store, locals |-> [n \in {} |-> <<>>], err |-> <<>>,
     fresh |-> 0, i |-> 0, nested |-> 0, nilCall |-> FALSE, invoked |-> <<>>,
     argNil |-> argNil, failing |-> failing, nestedFailAt |-> nestedFailAt,
     partial |-> partial]

\* the failures a call can meet: none, one function that fails (returning the
\* zero value or some other value beside its error), or the k-th nested
\* MapFrom call failing
Failures ==
    {<<{}, 0>>} \cup {<<{f}, 0>> : f \in DOMAIN functions}
    \cup {<<{}, k>> : k \in 1..MaxLen}

DTOFieldIndex(d) ==
    [f \in {dtos[d].Fields[j].Name : j \in 1..Len(dtos[d].Fields)} |->
        (CHOOSE j \in 1..Len(dtos[d].Fields) : dtos[d].Fields[j].Name = f) ]
TypeOfDTOField(d, f) == dtos[d].Fields[DTOFieldIndex(d)[f]].Type
SourceFieldTypes(n) == [f \in DOMAIN sources[n].Fields |-> sources[n].Fields[f].Type]

\* a caller invokes d.MapFrom<Source>(src) on a zero-valued d
CallMapFrom ==
    /\ run.direction = ""
    /\ \E m \in DOMAIN methods, argNil \in BOOLEAN, fail \in Failures, partial \in BOOLEAN :
          LET toTypes == [f \in DOMAIN DTOFieldIndex(m[1]) |-> TypeOfDTOField(m[1], f)]
              fromTypes == SourceFieldTypes(m[2])
          IN  \E choice \in [DOMAIN fromTypes ->
                                UNION {FieldValues("src", f, fromTypes[f]) :
                                          f \in DOMAIN fromTypes}] :
                  /\ \A f \in DOMAIN fromTypes :
                        choice[f] \in FieldValues("src", f, fromTypes[f])
                  /\ partial => fail[1] # {}
                  /\ argNil => fail = <<{}, 0>> /\ \A f \in DOMAIN fromTypes :
                                   choice[f].cells = {} /\ choice[f].v.elems = <<>>
                  /\ run' = [direction |-> "MapFrom", dto |-> m[1], other |-> m[2],
                             pos |-> 1,
                             env |-> Entered(argNil,
                                             Memory("src", fromTypes, "d", toTypes, choice,
                                                    IF argNil THEN "src" ELSE ""),
                                             fail[1], fail[2], partial)]
    /\ UNCHANGED <<schemaVars, registryVars, reverse, pc, result, totals, todo, cur, searchVars,
                   examined, methods>>

\* a caller invokes d.MapTo<Target>(dst) on a zero-valued dst
CallMapTo ==
    /\ run.direction = ""
    /\ \E m \in DOMAIN reverse, argNil \in BOOLEAN, fail \in Failures, partial \in BOOLEAN :
          LET fromTypes == [f \in DOMAIN DTOFieldIndex(m[1]) |-> TypeOfDTOField(m[1], f)]
              toTypes == SourceFieldTypes(m[2])
          IN  \E choice \in [DOMAIN fromTypes ->
                                UNION {FieldValues("d", f, fromTypes[f]) :
                                          f \in DOMAIN fromTypes}] :
                  /\ \A f \in DOMAIN fromTypes :
                        choice[f] \in FieldValues("d", f, fromTypes[f])
                  /\ partial => fail[1] # {}
                  /\ argNil => fail = <<{}, 0>>
                  /\ fail[2] = 0
                  /\ run' = [direction |-> "MapTo", dto |-> m[1], other |-> m[2],
                             pos |-> 1,
                             env |-> Entered(argNil,
                                             Memory("d", fromTypes, "dst", toTypes, choice,
                                                    IF argNil THEN "dst" ELSE ""),
                                             fail[1], fail[2], partial)]
    /\ UNCHANGED <<schemaVars, registryVars, reverse, pc, result, totals, todo, cur, searchVars,
                   examined, methods>>

\* a caller whose d.MapFrom<Source>(src) returned without error invokes
\* d.MapTo<Source>(dst) on a zero-valued dst
CallMapToBack ==
    /\ run.direction = "MapFrom"
    /\ run.env.status = "return"
    /\ run.env.err = <<>>
    /\ <<run.dto, run.other>> \in DOMAIN reverse
    /\ LET toTypes == SourceFieldTypes(run.other)
           fresh == [l \in {<<"dst", ".", f>> : f \in DOMAIN toTypes} |->
                        ZeroOf(toTypes[l[3]])]
       IN  run' = [direction |-> "RoundTrip", dto |-> run.dto, other |-> run.other,
                   pos |-> 1,
                   env |-> [Entered(FALSE, fresh @@ run.env.store, {}, 0, FALSE)
                               EXCEPT !.fresh = run.env.fresh]]
    /\ UNCHANGED <<schemaVars, registryVars, reverse, pc, result, totals, todo, cur, searchVars,
                   examined, methods>>

\* the method a call runs
Running ==
    IF run.direction = "MapFrom" THEN methods[<<run.dto, run.other>>]
    ELSE reverse[<<run.dto, run.other>>]

\* the call executes the next statement group of the method body
Execute ==
    /\ run.direction # ""
    /\ run.env.status = "ok"
    /\ run.pos <= Len(Running.statements)
    /\ run' = [run EXCEPT !.env = Exec(Running.statements[run.pos].code, run.env),
                          !.pos = @ + 1]
    /\ UNCHANGED <<schemaVars, registryVars, reverse, pc, result, totals, todo, cur, searchVars,
                   examined, methods>>

\* --------------------------------------------------- schemas Init draws from
FieldInfo(name, type, converterTag, fieldTag, ignore, nestedDTO) ==
    [Name |-> name, Type |-> type, ConverterTag |-> converterTag,
     FieldTag |-> fieldTag, Ignore |-> ignore, NestedDTO |-> nestedDTO]

DTOMapping(name, srcs, fields, bidirectional) ==
    [Name |-> name, Sources |-> srcs, Fields |-> fields, Bidirectional |-> bidirectional]

\* ParseStruct: every field's FieldTypeInfo comes from extractTypeInfo
SourceStruct(name, fieldTypes) ==
    [Name |-> name, Fields |-> [f \in DOMAIN fieldTypes |-> extractTypeInfo(fieldTypes[f])]]

FunctionInfo(name, params, returns, isConverter, isInverter, invertsFunc) ==
    [Name |-> name, ParamTypes |-> params, ReturnTypes |-> returns,
     IsConverter |-> isConverter, IsInverter |-> isInverter, InvertsFunc |-> invertsFunc]

Schema(d, s, f, c) == [dtos |-> d, sources |-> s, functions |-> f, cfg |-> c]

NoFunctions == [n \in {} |-> 0]
NoConverters == [Converters |-> <<>>]

SeqsUpTo(S, n) == UNION {[1..k -> S] : k \in 0..n}

T == <<"T">>
BaseNames == {<<"T">>, <<"U">>, <<"pkg", ".", "T">>, <<"alt", ".", "T">>}
TypeTexts == {w \o b : w \in SeqsUpTo({"*", "[]"}, MaxWrap), b \in BaseNames}

\* Signatures: safe, error-returning, second result not error, no parameter
Signatures ==
    { <<(<<"T">>), (<<"U">>)>>, <<(<<"T">>), (<<"U", "error">>)>>,
      <<(<<"T">>), (<<"U", "bool">>)>>, <<(<<>>), (<<"U">>)>>,
      <<(<<"T", "T">>), (<<"U", "error">>)>> }

\* a function that carries no annotation
PlainFunction == FunctionInfo("plain", <<"T">>, <<"U">>, FALSE, FALSE, "")

\* the function sets: "conv" annotated as converter, "plain" not annotated, and
\* possibly "inv" annotated as the inverter of "conv", of "gone" or of ""
FunctionSets ==
    LET withConv(sg) ==
            [n \in {"conv", "plain"} |->
                IF n = "conv" THEN FunctionInfo("conv", sg[1], sg[2], TRUE, FALSE, "")
                ELSE PlainFunction]
        withInv(sg, isg, of) ==
            [n \in {"conv", "plain", "inv"} |->
                IF n = "conv" THEN FunctionInfo("conv", sg[1], sg[2], TRUE, FALSE, "")
                ELSE IF n = "inv" THEN FunctionInfo("inv", isg[1], isg[2], TRUE, TRUE, of)
                ELSE PlainFunction]
    IN  {withConv(sg) : sg \in Signatures}
        \cup {withInv(sg, isg, of) :
                 sg \in {<<(<<"T">>), (<<"U">>)>>, <<(<<>>), (<<"U">>)>>},
                 isg \in Signatures, of \in {"conv", "gone", "plain", ""}}

BaseFunctions ==
    [n \in {"conv", "plain"} |->
        IF n = "conv" THEN FunctionInfo("conv", <<"T">>, <<"U">>, TRUE, FALSE, "")
        ELSE PlainFunction]

\* one DTO with one direct field, every pair of type texts
TypeFamily ==
    { Schema([n \in {"A"} |->
                 DTOMapping("A", <<"S">>, <<FieldInfo("F", t, "", "", FALSE, "")>>, FALSE)],
             [n \in {"S"} |-> SourceStruct("S", [f \in {"F"} |-> s])],
             NoFunctions, NoConverters) :
        t \in TypeTexts, s \in TypeTexts }

\* one field with every combination of directives
FieldFamily ==
    { Schema([n \in {"A", "B"} |->
                 IF n = "A"
                 THEN DTOMapping("A", <<"S">>,
                                 <<FieldInfo("F", t, c, g, ig, nd)>>, bi)
                 ELSE DTOMapping("B", <<"S">>, <<>>, FALSE)],
             [n \in {"S"} |-> SourceStruct("S", [f \in {sf} |-> s])],
             BaseFunctions, NoConverters) :
        t \in {<<"T">>, <<"*", "T">>, <<"[]", "T">>},
        s \in {<<"T">>, <<"*", "T">>, <<"[]", "T">>},
        c \in {"", "conv", "ghost", "plain"},
        g \in {"", "G"},
        sf \in {"F", "G"},
        ig \in BOOLEAN,
        nd \in {"", "A", "B", "X"},
        bi \in BOOLEAN }

\* one converter-tagged field against every function set; the tag "alias" is
\* a name of the converter table cfg.Converters
ConverterFamily ==
    { Schema([n \in {"A", "B"} |->
                 IF n = "A"
                 THEN DTOMapping("A", <<"S">>,
                                 <<FieldInfo("F", T, c[1], "", FALSE, nd)>>, bi)
                 ELSE DTOMapping("B", <<"S">>, <<>>, FALSE)],
             [n \in {"S"} |-> SourceStruct("S", [f \in {"F"} |-> s])],
             fs, [Converters |-> c[2]]) :
        c \in {<<"conv", <<>>>>, <<"inv", <<>>>>, <<"plain", <<>>>>, <<"ghost", <<>>>>,
               <<"alias", <<[Name |-> "alias", Function |-> "conv"]>>>>,
               <<"alias", <<[Name |-> "alias", Function |-> "ghost"]>>>>},
        nd \in {"", "B"},
        bi \in BOOLEAN,
        s \in {<<"T">>, <<"U">>},
        fs \in FunctionSets }

FieldNames == <<"F", "G", "H", "I", "J", "K">>

\* DTOs A, B, C whose fields are nested references, at most MaxNested in all,
\* to A, B, C or the undeclared X; the fields of B possibly ignored or unbound
CycleFamily ==
    LET Targets == {"A", "B", "C", "X"}
        fields(refs, decor) ==
            [i \in 1..Len(refs) |->
                FieldInfo(FieldNames[i], T, "",
                          IF decor = "unbound" THEN "Z" ELSE "",
                          decor = "ignored", refs[i])]
        S == SourceStruct("S", [f \in {FieldNames[i] : i \in 1..MaxNested} |-> T])
    IN  UNION { UNION { UNION {
          { Schema([n \in {"A", "B", "C"} |->
                       DTOMapping(n, <<"S">>,
                                  IF n = "A" THEN fields(a, "")
                                  ELSE IF n = "B" THEN fields(b, decor)
                                  ELSE fields(c, ""),
                                  FALSE)],
                   [n \in {"S"} |-> S], NoFunctions, NoConverters) :
              decor \in {"", "ignored", "unbound"} } :
          c \in SeqsUpTo(Targets, MaxNested - Len(a) - Len(b)) } :
          b \in SeqsUpTo(Targets, MaxNested - Len(a)) } :
          a \in SeqsUpTo(Targets, MaxNested) }

\* DTO A with up to MaxFields fields of several kinds and one or two declared
\* sources, of which M is not a source struct; DTO B beside it
PairFamily ==
    LET kinds == {"same", "other", "ignored", "tagged", "converted"}
        field(i, k) ==
            FieldInfo(FieldNames[i],
                      IF k = "other" THEN <<"U">> ELSE T,
                      IF k = "converted" THEN "ghost" ELSE "",
                      IF k = "tagged" THEN "Z" ELSE "",
                      k = "ignored", "")
        S == SourceStruct("S", [f \in {FieldNames[i] : i \in 1..MaxFields} |-> T])
        R == SourceStruct("R", [f \in {"F"} |-> <<"*", "U">>])
        names == {"S", "R", "M"}
        lists == {l \in SeqsUpTo(names, 2) :
                     Len(l) >= 1 /\ \A i, j \in DOMAIN l : i # j => l[i] # l[j]}
    IN  { Schema([n \in {"A", "B"} |->
                     IF n = "A"
                     THEN DTOMapping("A", l, [i \in DOMAIN ks |-> field(i, ks[i])], bi)
                     ELSE DTOMapping("B", <<"M", "S">>,
                                     <<FieldInfo("F", <<"U">>, "", "", FALSE, "")>>, FALSE)],
                 [n \in {"S", "R"} |-> IF n = "S" THEN S ELSE R],
                 BaseFunctions, NoConverters) :
            l \in lists, ks \in SeqsUpTo(kinds, MaxFields), bi \in BOOLEAN }

\* bidirectional or one-way DTO A from S with the converted field F and the
\* plain field G after it; the converter of F is annotated or not, and has a
\* registered inverter or none
InverterFamily ==
    LET inverted ==
            [n \in {"conv", "plain", "inv"} |->
                IF n = "conv" THEN FunctionInfo("conv", <<"T">>, <<"U">>, TRUE, FALSE, "")
                ELSE IF n = "inv"
                THEN FunctionInfo("inv", <<"U">>, <<"T">>, TRUE, TRUE, "conv")
                ELSE PlainFunction]
    IN  { Schema([n \in {"A"} |->
                     DTOMapping("A", <<"S">>,
                                <<FieldInfo("F", <<"U">>, c, "", ig, ""),
                                  FieldInfo("G", g, "", "", FALSE, "")>>, bi)],
                 [n \in {"S"} |-> SourceStruct("S", [f \in {"F", "G"} |-> T])],
                 fs, NoConverters) :
            c \in {"conv", "plain"}, ig \in BOOLEAN, bi \in BOOLEAN,
            g \in {<<"T">>, <<"*", "T">>}, fs \in {BaseFunctions, inverted} }

\* the characters of a field name
Spelling(name) ==
    CASE name = "f" -> <<"f">>
      [] name = "f_g" -> <<"f", "_", "g">>
      [] name = "FG" -> <<"F", "G">>
      [] OTHER -> <<name>>
\* strings.ToUpper of one character
ToUpper(c) == CASE c = "f" -> "F" [] c = "g" -> "G" [] OTHER -> c
\* SnakeToCamel converts snake_case to CamelCase: the parts between the
\* underscores, each with its first character in upper case, joined
RECURSIVE SnakeToCamelFrom(_, _)
SnakeToCamelFrom(chars, partStart) ==
    IF chars = <<>> THEN <<>>
    ELSE IF Head(chars) = "_" THEN SnakeToCamelFrom(Tail(chars), TRUE)
    ELSE <<IF partStart THEN ToUpper(Head(chars)) ELSE Head(chars)>>
         \o SnakeToCamelFrom(Tail(chars), FALSE)
SnakeToCamel(name) == SnakeToCamelFrom(Spelling(name), TRUE)

\* DTO A from S with one or two plain fields, named F and FG, F possibly with
\* an explicit source name; S has any fields of F, f, f_g, FG, G; the
\* configuration file requests the snake_to_camel transform or none
NamingFamily ==
    LET fieldLists == {<<"F">>, <<"F", "FG">>}
    IN  { Schema([n \in {"A"} |->
                     DTOMapping("A", <<"S">>,
                                [i \in DOMAIN fl |->
                                    FieldInfo(fl[i], T, "", IF i = 1 THEN g ELSE "",
                                              FALSE, "")], bi)],
                 [n \in {"S"} |-> SourceStruct("S", [f \in names |-> T])],
                 NoFunctions, [Converters |-> <<>>, FieldNameTransform |-> p]) :
            fl \in fieldLists, g \in {"", "G"}, bi \in BOOLEAN,
            names \in (SUBSET {"F", "f", "f_g", "FG", "G"}) \ {{}},
            p \in {"", "snake_to_camel"} }

\* the functions of the generator's schemas: a safe and an error-returning
\* converter, and their inverters (none, safe ones or error-returning ones)
EmitFunctions(inverters) ==
    LET names == {"safe", "fallible"}
                 \cup (IF inverters = "none" THEN {} ELSE {"unsafe", "unfallible"})
        returns == IF inverters = "fallible" THEN <<"T", "error">> ELSE <<"T">>
    IN  [n \in names |->
            IF n = "safe" THEN FunctionInfo("safe", <<"T">>, <<"T">>, TRUE, FALSE, "")
            ELSE IF n = "fallible"
            THEN FunctionInfo("fallible", <<"T">>, <<"T", "error">>, TRUE, FALSE, "")
            ELSE IF n = "unsafe"
            THEN FunctionInfo("unsafe", <<"T">>, returns, TRUE, TRUE, "safe")
            ELSE FunctionInfo("unfallible", <<"T">>, returns, TRUE, TRUE, "fallible")]

\* bidirectional DTO A from S with no field, with the field F, or with F and
\* a plain field G after it; F is direct or converted, of every pointer shape,
\* or nested into B (from N), of every pointer and slice shape; F is possibly
\* ignored or absent from S; the tag "alias" is a name of cfg.Converters
EmitSchemas ==
    LET G == FieldInfo("G", T, "", "", FALSE, "")
        B == DTOMapping("B", <<"N">>, <<>>, FALSE)
        N == SourceStruct("N", [f \in {} |-> T])
        schema(fields, s, sf, inverters) ==
            Schema([n \in {"A", "B"} |->
                       IF n = "A" THEN DTOMapping("A", <<"S">>, fields, TRUE) ELSE B],
                   [n \in {"S", "N"} |->
                       IF n = "S"
                       THEN SourceStruct("S", [f \in {sf, "G"} |-> IF f = sf THEN s ELSE T])
                       ELSE N],
                   EmitFunctions(inverters),
                   [Converters |-> <<[Name |-> "alias", Function |-> "fallible"]>>])
        shapes(b) == {b, <<"*">> \o b, <<"[]">> \o b, <<"[]", "*">> \o b}
        plain == { schema(IF more THEN <<FieldInfo("F", t, c, "", ig, ""), G>>
                          ELSE <<FieldInfo("F", t, c, "", ig, "")>>, s, sf, inverters) :
                     t \in {<<"T">>, <<"*", "T">>},
                     s \in {<<"T">>, <<"*", "T">>, <<"U">>, <<"*", "U">>},
                     c \in {"", "safe", "fallible", "ghost", "alias"},
                     ig \in BOOLEAN,
                     sf \in {"F", "H"},
                     inverters \in {"none", "safe", "fallible"},
                     more \in BOOLEAN }
        nested == { schema(IF more THEN <<FieldInfo("F", t, "", "", ig, "B"), G>>
                           ELSE <<FieldInfo("F", t, "", "", ig, "B")>>, s, "F", "none") :
                      t \in shapes(<<"B">>),
                      s \in shapes(<<"N">>),
                      ig \in BOOLEAN,
                      more \in BOOLEAN }
    IN  plain \cup nested \cup {schema(<<>>, T, "F", "none")}

Schemas ==
    TypeFamily \cup FieldFamily \cup ConverterFamily \cup CycleFamily \cup PairFamily
        \cup InverterFamily \cup NamingFamily

\* ------------------------------------------------ emitted converter registry
\* the goroutines that call the emitted functions, and the calls each makes
NumProcs == 2
MaxCalls == 2
Procs == 1..NumProcs
\* the names converters are registered and looked up under
Names == {"a", "b"}
U == <<"U">>
\* a function value: its name, its parameter and result type, and what its
\* body does: return a value, return an error, or register a converter and
\* then return a value
Fn(id, from, to, does) == [id |-> id, from |-> from, to |-> to, does |-> does]
NoFn == Fn("", <<>>, <<>>, "")
Fns ==
    { Fn("upper", T, U, "return"), Fn("install", T, U, "register"),
      Fn("back", U, T, "fail") }
FnNamed(id) == CHOOSE f \in Fns : f.id = id
\* the type arguments From, To of a call of Convert
CallTypes == {<<T, U>>, <<U, T>>}
\* what a function value returns for an argument
Outcome(value, err) == [value |-> value, err |-> err]
NoReturn == Outcome(Nil, "")
Apply(fn, value) ==
    IF fn.does = "fail" THEN Outcome(ZeroOf(fn.to), "failed")
    ELSE Outcome(Val(<<fn.id>> \o value.data), "")

\* one statement of an emitted function or of a converter's body
Instr(op, text) == [op |-> op, text |-> text]

\* GenerateInfrastructure that defers the release of the read lock, so that
\* Convert invokes the converter with the lock held
GenerateInfrastructure_DeferredRUnlock ==
    [RegisterConverter |->
        << Instr("Lock", ""), Instr("Defer", "Unlock"), Instr("MapWrite", "") >>,
     Convert |->
        << Instr("VarZero", ""), Instr("RLock", ""), Instr("Defer", "RUnlock"),
           Instr("MapRead", ""),
           Instr("IfNotOkReturn", "converter %s not registered"),
           Instr("TypeAssert", ""),
           Instr("IfNotOkReturn", "converter %s has wrong type"),
           Instr("ReturnCall", "") >>]

\* GenerateInfrastructure whose Convert does not test the stored function's type
GenerateInfrastructure_NoAssert ==
    [RegisterConverter |->
        << Instr("Lock", ""), Instr("Defer", "Unlock"), Instr("MapWrite", "") >>,
     Convert |->
        << Instr("VarZero", ""), Instr("RLock", ""), Instr("MapRead", ""),
           Instr("RUnlock", ""),
           Instr("IfNotOkReturn", "converter %s not registered"),
           Instr("ReturnCall", "") >>]

\* GenerateInfrastructure generates the converter infrastructure code: the
\* bodies of RegisterConverter and of Convert
GenerateInfrastructure ==
    [RegisterConverter |->
        << Instr("Lock", ""), Instr("Defer", "Unlock"), Instr("MapWrite", "") >>,
     Convert |->
        << Instr("VarZero", ""), Instr("RLock", ""), Instr("MapRead", ""),
           Instr("RUnlock", ""),
           Instr("IfNotOkReturn", "converter %s not registered"),
           Instr("TypeAssert", ""),
           Instr("IfNotOkReturn", "converter %s has wrong type"),
           Instr("ReturnCall", "") >>]

\* the body of a converter function
ConverterBody(fn) ==
    IF fn.does = "register"
    THEN << Instr("CallRegisterConverter", "b"), Instr("Return", "") >>
    ELSE << Instr("Return", "") >>

\* an activation record of RegisterConverter, Convert or a converter: the
\* arguments name and fn or value, the type arguments, the locals zero,
\* converterIface, ok, the deferred calls, and the result once it returns;
\* seen and invoked keep what the lookup found and whether the converter ran
Frame(fn, name, types, value, function) ==
    [fn |-> fn, pc |-> 1, name |-> name, types |-> types, value |-> value,
     function |-> function, zero |-> Nil, converterIface |-> NoFn, ok |-> FALSE,
     deferred |-> <<>>, ret |-> NoReturn, done |-> FALSE,
     seen |-> NoFn, invoked |-> FALSE]
BodyOf(frame) ==
    IF frame.fn = "converter" THEN ConverterBody(frame.function)
    ELSE GenerateInfrastructure[frame.fn]
Depth(p) == Len(frames[p])
TopFrame(p) == frames[p][Depth(p)]
Finished(frame) == frame.done \/ frame.pc > Len(BodyOf(frame))
\* goroutine p is about to execute a statement of the kind op
At(p, op) ==
    /\ Depth(p) > 0
    /\ ~Finished(TopFrame(p))
    /\ BodyOf(TopFrame(p))[TopFrame(p).pc].op = op
TextAt(p) == BodyOf(TopFrame(p))[TopFrame(p).pc].text
\* the frames of p with the innermost one replaced, and with one more
SetTop(p, frame) == [frames EXCEPT ![p][Depth(p)] = frame]
Advance(p) == [TopFrame(p) EXCEPT !.pc = @ + 1]
Push(p, frame) == [frames EXCEPT ![p] = Append(@, frame)]

\* the registry before any call: init() has registered cfg.DefaultConverters
RECURSIVE generateInit(_)
generateInit(defaults) ==
    IF defaults = <<>> THEN [n \in {} |-> NoFn]
    ELSE LET before == generateInit(SubSeq(defaults, 1, Len(defaults) - 1))
             last == defaults[Len(defaults)]
         IN  [n \in DOMAIN before \cup {last.Name} |->
                 IF n = last.Name THEN FnNamed(last.Function) ELSE before[n]]
NoOutcome == [fn |-> ""]
MutexFree == [writer |-> 0, readers |-> {}, pending |-> {}]
NoRegistry ==
    /\ converters = [n \in {} |-> NoFn]
    /\ convertersMu = MutexFree
    /\ frames = [p \in Procs |-> <<>>]
    /\ calls = [p \in Procs |-> 0]
    /\ outcome = [p \in Procs |-> NoOutcome]

\* a goroutine calls RegisterConverter(name, fn)
CallRegisterConverter ==
    /\ pc = "emitted"
    /\ \E p \in Procs, name \in Names, fn \in Fns :
          /\ Depth(p) = 0
          /\ calls[p] < MaxCalls
          /\ frames' = Push(p, Frame("RegisterConverter", name, <<fn.from, fn.to>>, Nil, fn))
          /\ calls' = [calls EXCEPT ![p] = @ + 1]
          /\ outcome' = [outcome EXCEPT ![p] = NoOutcome]
    /\ UNCHANGED <<schemaVars, emitVars, pc, result, totals, todo, cur, searchVars,
                   examined, methods, converters, convertersMu>>

\* a goroutine calls Convert[From, To](name, value)
CallConvert ==
    /\ pc = "emitted"
    /\ \E p \in Procs, name \in Names, types \in CallTypes :
          /\ Depth(p) = 0
          /\ calls[p] < MaxCalls
          /\ frames' = Push(p, Frame("Convert", name, types, Val(<<"x">>), NoFn))
          /\ calls' = [calls EXCEPT ![p] = @ + 1]
          /\ outcome' = [outcome EXCEPT ![p] = NoOutcome]
    /\ UNCHANGED <<schemaVars, emitVars, pc, result, totals, todo, cur, searchVars,
                   examined, methods, converters, convertersMu>>

\* convertersMu.Lock(), first part: the writer announces itself, which keeps
\* new readers out
LockRequest ==
    /\ \E p \in Procs :
          /\ At(p, "Lock")
          /\ p \notin convertersMu.pending
          /\ convertersMu' = [convertersMu EXCEPT !.pending = @ \cup {p}]
    /\ UNCHANGED <<schemaVars, emitVars, pc, result, totals, todo, cur, searchVars,
                   examined, methods, converters, frames, calls, outcome>>

\* convertersMu.Lock(), second part: the writer enters once no reader and no
\* other writer is inside
LockAcquire ==
    /\ \E p \in Procs :
          /\ At(p, "Lock")
          /\ p \in convertersMu.pending
          /\ convertersMu.writer = 0
          /\ convertersMu.readers = {}
          /\ convertersMu' = [convertersMu EXCEPT !.pending = @ \ {p}, !.writer = p]
          /\ frames' = SetTop(p, Advance(p))
    /\ UNCHANGED <<schemaVars, emitVars, pc, result, totals, todo, cur, searchVars,
                   examined, methods, converters, calls, outcome>>

\* convertersMu.RLock(): blocks while a writer is inside or waiting
RLock ==
    /\ \E p \in Procs :
          /\ At(p, "RLock")
          /\ convertersMu.writer = 0
          /\ convertersMu.pending = {}
          /\ convertersMu' = [convertersMu EXCEPT !.readers = @ \cup {p}]
          /\ frames' = SetTop(p, Advance(p))
    /\ UNCHANGED <<schemaVars, emitVars, pc, result, totals, todo, cur, searchVars,
                   examined, methods, converters, calls, outcome>>

\* convertersMu.RUnlock()
RUnlock ==
    /\ \E p \in Procs :
          /\ At(p, "RUnlock")
          /\ convertersMu' = [convertersMu EXCEPT !.readers = @ \ {p}]
          /\ frames' = SetTop(p, Advance(p))
    /\ UNCHANGED <<schemaVars, emitVars, pc, result, totals, todo, cur, searchVars,
                   examined, methods, converters, calls, outcome>>

\* defer convertersMu.Unlock()
Defer ==
    /\ \E p \in Procs :
          /\ At(p, "Defer")
          /\ frames' = SetTop(p, [Advance(p) EXCEPT !.deferred = <<TextAt(p)>> \o @])
    /\ UNCHANGED <<schemaVars, emitVars, pc, result, totals, todo, cur, searchVars,
                   examined, methods, converters, convertersMu, calls, outcome>>

\* converters[name] = fn
MapWrite ==
    /\ \E p \in Procs :
          /\ At(p, "MapWrite")
          /\ converters' = [n \in DOMAIN converters \cup {TopFrame(p).name} |->
                               IF n = TopFrame(p).name THEN TopFrame(p).function
                               ELSE converters[n]]
          /\ frames' = SetTop(p, Advance(p))
    /\ UNCHANGED <<schemaVars, emitVars, pc, result, totals, todo, cur, searchVars,
                   examined, methods, convertersMu, calls, outcome>>

\* var zero To
VarZero ==
    /\ \E p \in Procs :
          /\ At(p, "VarZero")
          /\ frames' = SetTop(p, [Advance(p) EXCEPT !.zero = ZeroOf(TopFrame(p).types[2])])
    /\ UNCHANGED <<schemaVars, emitVars, pc, result, totals, todo, cur, searchVars,
                   examined, methods, converters, convertersMu, calls, outcome>>

\* converterIface, ok := converters[name]
MapRead ==
    /\ \E p \in Procs :
          /\ At(p, "MapRead")
          /\ LET ok == TopFrame(p).name \in DOMAIN converters
                 found == IF ok THEN converters[TopFrame(p).name] ELSE NoFn
             IN  frames' = SetTop(p, [Advance(p) EXCEPT !.ok = ok,
                                                        !.converterIface = found,
                                                        !.seen = found])
    /\ UNCHANGED <<schemaVars, emitVars, pc, result, totals, todo, cur, searchVars,
                   examined, methods, converters, convertersMu, calls, outcome>>

\* if !ok { return zero, fmt.Errorf(...) }
IfNotOkReturn ==
    /\ \E p \in Procs :
          /\ At(p, "IfNotOkReturn")
          /\ frames' = SetTop(p, IF TopFrame(p).ok THEN Advance(p)
                                 ELSE [TopFrame(p) EXCEPT
                                          !.ret = Outcome(TopFrame(p).zero, TextAt(p)),
                                          !.done = TRUE])
    /\ UNCHANGED <<schemaVars, emitVars, pc, result, totals, todo, cur, searchVars,
                   examined, methods, converters, convertersMu, calls, outcome>>

\* converter, ok := converterIface.(Converter[From, To])
TypeAssert ==
    /\ \E p \in Procs :
          /\ At(p, "TypeAssert")
          /\ frames' = SetTop(p, [Advance(p) EXCEPT
                                     !.ok = /\ TopFrame(p).converterIface.from
                                                 = TopFrame(p).types[1]
                                            /\ TopFrame(p).converterIface.to
                                                 = TopFrame(p).types[2]])
    /\ UNCHANGED <<schemaVars, emitVars, pc, result, totals, todo, cur, searchVars,
                   examined, methods, converters, convertersMu, calls, outcome>>

\* return converter(value): the converter is entered
ReturnCall ==
    /\ \E p \in Procs :
          /\ At(p, "ReturnCall")
          /\ frames' = [frames EXCEPT
                           ![p] = Append([@ EXCEPT ![Depth(p)] =
                                             [Advance(p) EXCEPT !.invoked = TRUE]],
                                         Frame("converter", TopFrame(p).name,
                                               TopFrame(p).types, TopFrame(p).value,
                                               TopFrame(p).converterIface))]
    /\ UNCHANGED <<schemaVars, emitVars, pc, result, totals, todo, cur, searchVars,
                   examined, methods, converters, convertersMu, calls, outcome>>

\* a converter's body registers a converter
ConverterRegisters ==
    /\ \E p \in Procs :
          /\ At(p, "CallRegisterConverter")
          /\ frames' = [frames EXCEPT
                           ![p] = Append([@ EXCEPT ![Depth(p)] = Advance(p)],
                                         Frame("RegisterConverter", TextAt(p),
                                               <<U, T>>, Nil, FnNamed("back")))]
    /\ UNCHANGED <<schemaVars, emitVars, pc, result, totals, todo, cur, searchVars,
                   examined, methods, converters, convertersMu, calls, outcome>>

\* a converter's body returns
ConverterReturns ==
    /\ \E p \in Procs :
          /\ At(p, "Return")
          /\ frames' = SetTop(p, [TopFrame(p) EXCEPT
                                     !.ret = Apply(TopFrame(p).function, TopFrame(p).value),
                                     !.done = TRUE])
    /\ UNCHANGED <<schemaVars, emitVars, pc, result, totals, todo, cur, searchVars,
                   examined, methods, converters, convertersMu, calls, outcome>>

\* a returning function runs its deferred call
RunDeferred ==
    /\ \E p \in Procs :
          /\ Depth(p) > 0
          /\ Finished(TopFrame(p))
          /\ TopFrame(p).deferred # <<>>
          /\ convertersMu' =
                IF Head(TopFrame(p).deferred) = "Unlock"
                THEN [convertersMu EXCEPT !.writer = 0]
                ELSE [convertersMu EXCEPT !.readers = @ \ {p}]
          /\ frames' = SetTop(p, [TopFrame(p) EXCEPT !.deferred = Tail(@)])
    /\ UNCHANGED <<schemaVars, emitVars, pc, result, totals, todo, cur, searchVars,
                   examined, methods, converters, calls, outcome>>

\* a function returns to its caller: Convert returns what the converter
\* returned, a converter goes on after RegisterConverter, and the goroutine
\* has the result of its own call
Return ==
    /\ \E p \in Procs :
          /\ Depth(p) > 0
          /\ Finished(TopFrame(p))
          /\ TopFrame(p).deferred = <<>>
          /\ LET inner == TopFrame(p)
                 rest == SubSeq(frames[p], 1, Depth(p) - 1)
             IN  IF rest = <<>>
                 THEN /\ frames' = [frames EXCEPT ![p] = <<>>]
                      /\ outcome' = [outcome EXCEPT ![p] =
                                        [fn |-> inner.fn, name |-> inner.name,
                                         types |-> inner.types, value |-> inner.value,
                                         ret |-> inner.ret, seen |-> inner.seen,
                                         invoked |-> inner.invoked]]
                 ELSE /\ frames' = [frames EXCEPT ![p] =
                                      IF inner.fn = "converter"
                                      THEN [rest EXCEPT ![Len(rest)] =
                                               [@ EXCEPT !.ret = inner.ret,
                                                         !.done = TRUE]]
                                      ELSE rest]
                      /\ UNCHANGED outcome
    /\ UNCHANGED <<schemaVars, emitVars, pc, result, totals, todo, cur, searchVars,
                   examined, methods, converters, convertersMu, calls>>

\* a step of a call that has begun
RegistryStep ==
    \/ LockRequest \/ LockAcquire \/ RLock \/ RUnlock \/ Defer \/ MapWrite
    \/ VarZero \/ MapRead \/ IfNotOkReturn \/ TypeAssert \/ ReturnCall
    \/ ConverterRegisters \/ ConverterReturns \/ RunDeferred \/ Return

\* the emitted registry after init(), with no call begun
RegistryInit ==
    /\ dtos = [n \in {} |-> 0]
    /\ sources = [n \in {} |-> 0]
    /\ functions = NoFunctions
    /\ \E defaults \in {<<>>, <<[Name |-> "a", Function |-> "install"]>>} :
          /\ cfg = [Converters |-> <<>>, DefaultConverters |-> defaults]
          /\ converters = generateInit(defaults)
    /\ pc = "emitted"
    /\ result = [Errors |-> <<>>, Warnings |-> <<>>,
                 Stats |-> [total_dtos |-> 0, total_sources |-> 0, total_fields |-> 0,
                            bidirectional_dtos |-> 0, errors |-> 0, warnings |-> 0]]
    /\ totals = [totalFields |-> 0, totalBidirectional |-> 0]
    /\ todo = {}
    /\ cur = [dto |-> "", si |-> 1, fi |-> 1]
    /\ NoSearch
    /\ examined = {}
    /\ methods = [p \in {} |-> 0]
    /\ reverse = [p \in {} |-> 0]
    /\ run = NotCalled
    /\ convertersMu = MutexFree
    /\ frames = [p \in Procs |-> <<>>]
    /\ calls = [p \in Procs |-> 0]
    /\ outcome = [p \in Procs |-> NoOutcome]

RegistryNext ==
    \/ CallRegisterConverter
    \/ CallConvert
    \/ LockRequest
    \/ LockAcquire
    \/ RLock
    \/ RUnlock
    \/ Defer
    \/ MapWrite
    \/ VarZero
    \/ MapRead
    \/ IfNotOkReturn
    \/ TypeAssert
    \/ ReturnCall
    \/ ConverterRegisters
    \/ ConverterReturns
    \/ RunDeferred
    \/ Return

RegistrySpec == RegistryInit /\ [][RegistryNext]_vars

\* ------------------------------------------------------------ specification
\* NewValidator on a parsed schema, and Validate about to start
Init ==
    /\ \E s \in Schemas :
          /\ dtos = s.dtos
          /\ sources = s.sources
          /\ functions = s.functions
          /\ cfg = s.cfg
    /\ pc = "converters"
    /\ result = [Errors |-> <<>>, Warnings |-> <<>>,
                 Stats |-> [total_dtos |-> 0, total_sources |-> 0, total_fields |-> 0,
                            bidirectional_dtos |-> 0, errors |-> 0, warnings |-> 0]]
    /\ totals = [totalFields |-> 0, totalBidirectional |-> 0]
    /\ todo = DOMAIN dtos
    /\ cur = [dto |-> "", si |-> 1, fi |-> 1]
    /\ NoSearch
    /\ examined = {}
    /\ methods = [p \in {} |-> 0]
    /\ reverse = [p \in {} |-> 0]
    /\ run = NotCalled
    /\ NoRegistry

Next ==
    \/ ValidateConverterFunctions
    \/ ValidateInverterRelationships
    \/ NextDTO
    \/ SourcesDone
    \/ ValidateDTOMappingNoSource
    \/ ValidateDTOMapping
    \/ FieldsDone
    \/ SkipIgnoredField
    \/ ValidateFieldMissing
    \/ ValidateNestedDTOMissing
    \/ DetectCircularDependency
    \/ CanReachCall
    \/ CanReachLoop
    \/ CanReachReturn
    \/ ValidateNestedDTO
    \/ ValidateConverter
    \/ ValidateDirectMapping
    \/ ValidateBidirectionalMapping
    \/ ValidateReturn
    \/ GenerateMapFromMethod
    \/ GenerateMapToMethod

Spec == Init /\ [][Next]_vars

\* the generator on a parsed schema, and callers of the methods it emitted
EmitInit ==
    /\ \E s \in EmitSchemas :
          /\ dtos = s.dtos
          /\ sources = s.sources
          /\ functions = s.functions
          /\ cfg = s.cfg
    /\ pc = "generate"
    /\ result = [Errors |-> <<>>, Warnings |-> <<>>,
                 Stats |-> [total_dtos |-> 0, total_sources |-> 0, total_fields |-> 0,
                            bidirectional_dtos |-> 0, errors |-> 0, warnings |-> 0]]
    /\ totals = [totalFields |-> 0, totalBidirectional |-> 0]
    /\ todo = DOMAIN dtos
    /\ cur = [dto |-> "", si |-> 1, fi |-> 1]
    /\ NoSearch
    /\ examined = {}
    /\ methods = [p \in {} |-> 0]
    /\ reverse = [p \in {} |-> 0]
    /\ run = NotCalled
    /\ NoRegistry

EmitNext ==
    \/ GenerateMapFromMethod
    \/ GenerateMapToMethod
    \/ CallMapFrom
    \/ CallMapTo
    \/ CallMapToBack
    \/ Execute

EmitSpec == EmitInit /\ [][EmitNext]_vars

\* a call runs to its return: every step of it that can be taken is taken
FairEmitSpec == EmitSpec /\ WF_vars(Execute)

\* Validate runs to completion: every step of it that can be taken is taken
FairSpec == Spec /\ WF_vars(Next)

\* ---------------------------------------------------------------- properties
Done == pc = "done"

\* the (DTO, source index, field index) triples of the schema
Triples ==
    UNION {{<<d, i, j>> : i \in 1..Len(dtos[d].Sources), j \in 1..Len(dtos[d].Fields)} :
           d \in DOMAIN dtos}
TSource(t) == dtos[t[1]].Sources[t[2]]
TField(t) == dtos[t[1]].Fields[t[3]]
\* the field is looked at: its source struct exists and it is not ignored
Checked(t) == TSource(t) \in DOMAIN sources /\ ~TField(t).Ignore
\* ... and its resolved source field exists
IsBound(t) ==
    /\ Checked(t)
    /\ resolveSourceFieldName(TField(t)) \in DOMAIN sources[TSource(t)].Fields
TSourceField(t) == sources[TSource(t)].Fields[resolveSourceFieldName(TField(t))]

About(e, t) == e.DTO = t[1] /\ e.Source = TSource(t) /\ e.Field = TField(t).Name
ErrorsOf(t) == {i \in DOMAIN result.Errors : About(result.Errors[i], t)}
WarningsOf(t) == {i \in DOMAIN result.Warnings : About(result.Warnings[i], t)}
HasError(t, msg) == \E i \in ErrorsOf(t) : result.Errors[i].Message[1] = msg
HasWarning(t, msg) == \E i \in WarningsOf(t) : result.Warnings[i].Message[1] = msg

\* the nested-reference graph: x -> y if some field of the declared DTO x
\* nests y; Reaches(b, a): a is b or is reachable from b along the edges
Edge(x, y) ==
    /\ x \in DOMAIN dtos
    /\ \E j \in 1..Len(dtos[x].Fields) : dtos[x].Fields[j].NestedDTO = y
NestedNames ==
    UNION {{dtos[d].Fields[j].NestedDTO : j \in 1..Len(dtos[d].Fields)} : d \in DOMAIN dtos}
RECURSIVE Closure(_)
Closure(S) ==
    LET S2 == S \cup {y \in NestedNames : \E x \in S : Edge(x, y)}
    IN  IF S2 = S THEN S ELSE Closure(S2)
Reaches(b, a) == a \in Closure({b})

NestsDeclared(t) ==
    IsBound(t) /\ TField(t).NestedDTO # "" /\ TField(t).NestedDTO \in DOMAIN dtos

\* C1: when Validate has returned, a non-ignored, bound field of DTO A that
\* nests a declared DTO B carries a circular-dependency Error if and only if A
\* is reachable from B along nested references (B = A included).
C1_CycleDetection ==
    Done => \A t \in Triples :
                NestsDeclared(t) =>
                    (HasError(t, MsgCircular) <=> Reaches(TField(t).NestedDTO, t[1]))

\* C1 witness: Validate has returned with a circular-dependency Error on a
\* field that nests another DTO (a cycle of length two or more), and with a
\* nested field of a declared DTO that got no such Error.
C1_Witness ==
    /\ Done
    /\ \E t \in Triples :
          NestsDeclared(t) /\ TField(t).NestedDTO # t[1] /\ HasError(t, MsgCircular)
    /\ \E t \in Triples : NestsDeclared(t) /\ ~HasError(t, MsgCircular)

\* C2: within one reachability search no name passes the visited test (is
\* expanded) more than once, and every search that is started returns to
\* validateNestedDTO, on every schema: cycles beside the originating DTO and
\* references to undeclared DTOs included.
C2_SearchTerminates ==
    /\ [](\A n \in DOMAIN expanded : expanded[n] <= 1)
    /\ ((pc = "call") ~> (pc = "fields"))

\* C2 witness: a search is running on a graph with a cycle that does not pass
\* through the originating DTO, has met an already visited name there and has
\* also visited an undeclared name.
C2_Witness ==
    /\ pc = "return"
    /\ ~ret
    /\ callee \in visited
    /\ callee # cur.dto
    /\ \E n \in visited : n \notin DOMAIN dtos
    /\ ~Reaches(callee, cur.dto)

HasDirective(f) == f.FieldTag # "" \/ f.ConverterTag # "" \/ f.NestedDTO # ""
Unbound(t) == Checked(t) /\ ~IsBound(t)
BindingWarnings(t) ==
    {i \in WarningsOf(t) : result.Warnings[i].Message[1] = MsgSourceFieldZero}
BindingErrors(t) ==
    {i \in ErrorsOf(t) : result.Errors[i].Message[1] = MsgSourceField}
\* what the check of the resolved source field records for an unbound field
BindingDiagnostic(t) ==
    IF HasDirective(TField(t))
    THEN Cardinality(BindingErrors(t)) = 1 /\ BindingWarnings(t) = {}
    ELSE /\ BindingErrors(t) = {}
         /\ Cardinality(BindingWarnings(t)) = 1
         /\ \A i \in BindingWarnings(t) :
               result.Warnings[i].Fixable /\ result.Warnings[i].Suggestion = SuggestIgnoreTag

\* C3 as claimed: an unbound, non-ignored field has exactly one diagnostic in
\* the whole result: an Error if it carries a directive, else a fixable
\* Warning that suggests the ignore tag.
C3_ExactlyOneDiagnostic ==
    Done => \A t \in Triples :
                Unbound(t) =>
                    /\ BindingDiagnostic(t)
                    /\ Cardinality(ErrorsOf(t)) + Cardinality(WarningsOf(t)) = 1

\* C3 amended: the check of the resolved source field records exactly one
\* diagnostic for an unbound, non-ignored field (Error with a directive, else
\* fixable Warning suggesting the ignore tag) and validateField checks nothing
\* else on it; any other diagnostic of the field comes from the check of a
\* bidirectional DTO (nested field or converter without inverter skipped in
\* MapTo, function not marked as converter).
C3_BindingDiagnostic ==
    Done => \A t \in Triples :
                Unbound(t) =>
                    /\ BindingDiagnostic(t)
                    /\ \A i \in ErrorsOf(t) \ BindingErrors(t) :
                          /\ dtos[t[1]].Bidirectional
                          /\ result.Errors[i].Message[1] = MsgNotMarked
                    /\ \A i \in WarningsOf(t) \ BindingWarnings(t) :
                          /\ dtos[t[1]].Bidirectional
                          /\ result.Warnings[i].Message[1] \in {MsgNestedInMapTo, MsgNoInverter}

\* C3 witness: Validate has returned on a schema with an unbound field without
\* directive (one Warning) and on one with an unbound field of a
\* bidirectional DTO that has a second diagnostic.
C3_Witness ==
    /\ Done
    /\ \E t \in Triples :
          /\ Unbound(t)
          /\ \/ ~HasDirective(TField(t)) /\ Cardinality(WarningsOf(t)) = 1
             \/ HasDirective(TField(t)) /\ WarningsOf(t) # {} /\ ErrorsOf(t) # {}

IsDirect(t) == IsBound(t) /\ TField(t).NestedDTO = "" /\ TField(t).ConverterTag = ""
Qualified(a) == Contains(a, ".")
\* the relaxed equality of two base types: identical, or exactly one is
\* qualified and its trailing segment is the other
RelaxedEqual(a, b) ==
    \/ a = b
    \/ Qualified(a) /\ ~Qualified(b) /\ LastSegment(a) = b
    \/ Qualified(b) /\ ~Qualified(a) /\ LastSegment(b) = a
BaseTypesMatch(t) ==
    RelaxedEqual(extractBaseType(TField(t).Type), TSourceField(t).BaseType)

\* C4 as claimed: a direct field has a type-mismatch Error, suggesting a
\* converter, if and only if its base type and the base type of the bound
\* source field are not relaxed-equal.
C4_TypeCompatibility ==
    Done => \A t \in Triples :
                IsDirect(t) =>
                    /\ HasError(t, MsgTypeMismatch) <=> ~BaseTypesMatch(t)
                    /\ \A i \in ErrorsOf(t) : result.Errors[i].Suggestion = SuggestConverterTag

TargetIsPointer(t) == HasPrefix(TField(t).Type, "*")
SourceIsPointer(t) == HasPrefix(TSourceField(t).Type, "*")

\* C5: a direct field whose base types match has exactly one diagnostic, a
\* Warning, when target and source differ in pointer-ness, and no diagnostic
\* at all when they agree.
C5_PointerWarning ==
    Done => \A t \in Triples :
                IsDirect(t) /\ BaseTypesMatch(t) =>
                    /\ ErrorsOf(t) = {}
                    /\ IF TargetIsPointer(t) # SourceIsPointer(t)
                       THEN /\ Cardinality(WarningsOf(t)) = 1
                            /\ HasWarning(t, MsgPointerConversion)
                       ELSE WarningsOf(t) = {}

\* C5 witness: Validate has returned on a direct field with matching base
\* types (one of them qualified) and differing pointer-ness, Warning recorded.
C5_Witness ==
    /\ Done
    /\ \E t \in Triples :
          /\ IsDirect(t) /\ BaseTypesMatch(t)
          /\ TargetIsPointer(t) # SourceIsPointer(t)
          /\ Qualified(TSourceField(t).BaseType)
          /\ HasWarning(t, MsgPointerConversion)

\* a signature is Safe (one input, one output) or Fallible (one input, two
\* outputs, the second the failure indicator)
ValidSignature(fn) ==
    /\ Len(fn.ParamTypes) = 1
    /\ \/ Len(fn.ReturnTypes) = 1
       \/ Len(fn.ReturnTypes) = 2 /\ fn.ReturnTypes[2] = "error"
InvertersOf(c) ==
    {f \in DOMAIN functions : functions[f].IsInverter /\ functions[f].InvertsFunc = c}
\* a non-ignored field of a bidirectional DTO, tagged with a well-formed
\* converter that has no inverter or a malformed one
InverterTrouble(t) ==
    /\ Checked(t)
    /\ dtos[t[1]].Bidirectional
    /\ TField(t).NestedDTO = ""
    /\ TField(t).ConverterTag \in DOMAIN functions
    /\ LET c == TField(t).ConverterTag
       IN  /\ functions[c].IsConverter /\ ~functions[c].IsInverter
           /\ ValidSignature(functions[c])
           /\ \/ InvertersOf(c) = {}
              \/ \E f \in InvertersOf(c) : ~ValidSignature(functions[f])

\* C6 as claimed: a converter-tagged field of a bidirectional DTO whose
\* converter has no inverter, or an inverter that is neither Safe nor
\* Fallible, gets the Warning that it is skipped in the reverse mapping, and
\* no Error is recorded about the signature of an inverter of that converter.
C6_InverterWarningOnly ==
    Done => \A t \in Triples :
                InverterTrouble(t) =>
                    /\ HasWarning(t, MsgNoInverter)
                    /\ \A f \in InvertersOf(TField(t).ConverterTag) :
                          \A i \in DOMAIN result.Errors :
                              result.Errors[i].Message # <<MsgInverterSignature, f>>

\* a converter name resolves when it names a function annotated as converter
Resolves(name) == name \in DOMAIN functions /\ functions[name].IsConverter
ConverterError(t) == HasError(t, MsgConverterNotFound) \/ HasError(t, MsgNotMarked)
\* the annotated converters (inverters apart) whose signature is neither Safe
\* nor Fallible
MalformedConverters ==
    {f \in DOMAIN functions :
        /\ functions[f].IsConverter /\ ~functions[f].IsInverter
        /\ ~ValidSignature(functions[f])}
SignatureErrors ==
    \A f \in MalformedConverters :
        \E i \in DOMAIN result.Errors : result.Errors[i].Message = <<MsgConverterSignature, f>>

\* C7 as claimed: every converter name on a non-ignored bound field that does
\* not resolve to a converter function gives an Error for that field, and
\* every converter function with a malformed signature gives an Error.
C7_ConverterExistence ==
    Done => /\ \A t \in Triples :
                  IsBound(t) /\ TField(t).ConverterTag # ""
                             /\ ~Resolves(TField(t).ConverterTag)
                      => ErrorsOf(t) # {}
            /\ SignatureErrors

\* C7 amended: the converter name of a non-ignored bound field is looked up
\* only when the field has no nested reference; then a name that does not
\* resolve gives an Error for that field, and a field with a nested reference
\* never gets a converter Error from validateField; every converter function
\* with a malformed signature gives an Error.
C7_ConverterUnlessNested ==
    Done => /\ \A t \in Triples :
                  IsBound(t) /\ TField(t).ConverterTag # "" =>
                      IF TField(t).NestedDTO = ""
                      THEN ~Resolves(TField(t).ConverterTag) => ConverterError(t)
                      ELSE ~HasError(t, MsgConverterNotFound)
                           /\ (HasError(t, MsgNotMarked) => dtos[t[1]].Bidirectional)
            /\ SignatureErrors

\* C7 witness: Validate has returned on a schema whose field names a
\* converter that does not exist (Error on the field) and whose converter
\* function has a malformed signature (Error on the function).
C7_Witness ==
    /\ Done
    /\ MalformedConverters # {}
    /\ \E i \in DOMAIN result.Errors : result.Errors[i].Message[1] = MsgConverterSignature
    /\ \E t \in Triples :
          /\ IsBound(t) /\ TField(t).NestedDTO = ""
          /\ TField(t).ConverterTag # "" /\ ~Resolves(TField(t).ConverterTag)
          /\ HasError(t, MsgConverterNotFound)

Nests(t) == IsBound(t) /\ TField(t).NestedDTO # ""
\* exactly one of the target field and the bound source field is a sequence
SequenceMismatch(t) ==
    HasPrefix(TField(t).Type, "[]") # HasPrefix(TSourceField(t).Type, "[]")

ToExamine == {<<t[1], TSource(t), TField(t).Name>> : t \in {u \in Triples : Checked(u)}}
\* the declared (DTO, source) pairs whose source struct does not exist
MissingPairs ==
    UNION {{<<d, dtos[d].Sources[i]>> : i \in {k \in 1..Len(dtos[d].Sources) :
                                                  dtos[d].Sources[k] \notin DOMAIN sources}} :
           d \in DOMAIN dtos}
SourceErrors(p) ==
    {i \in DOMAIN result.Errors :
        /\ result.Errors[i].DTO = p[1] /\ result.Errors[i].Source = p[2]
        /\ result.Errors[i].Message[1] = MsgSourceStruct}

\* C9: Validate always returns, and when it has, validateField was called on
\* every non-ignored field of every (DTO, declared source) whose source
\* struct exists, whatever Errors were recorded before, and every pair whose
\* source struct does not exist has exactly one source-not-found Error.
C9_MaximalCollection ==
    /\ <>Done
    /\ [](Done => /\ examined = ToExamine
                  /\ \A p \in MissingPairs : Cardinality(SourceErrors(p)) = 1)

\* C9 witness: Validate has returned with an Error on the first field of a
\* DTO whose later field was examined all the same, after a source struct
\* that does not exist was reported for an earlier pair of the same DTO.
C9_Witness ==
    /\ Done
    /\ \E t \in Triples :
          /\ t[2] = 2 /\ t[3] = 1 /\ ErrorsOf(t) # {}
          /\ Len(dtos[t[1]].Fields) >= 2
          /\ ~dtos[t[1]].Fields[2].Ignore
          /\ <<t[1], TSource(t), dtos[t[1]].Fields[2].Name>> \in examined
          /\ <<t[1], dtos[t[1]].Sources[1]>> \in MissingPairs

\* the statement group that buildMethodBody emitted for the j-th field of d
StatementOf(m, d, j) ==
    methods[m].statements[1 + Cardinality({k \in 1..j : ~dtos[d].Fields[k].Ignore})]
\* the (method, field index) pairs of the generated methods whose field is
\* bound and not ignored
Planned ==
    UNION {{<<m, j>> : j \in {k \in 1..Len(dtos[m[1]].Fields) :
                                 /\ ~dtos[m[1]].Fields[k].Ignore
                                 /\ resolveSourceFieldName(dtos[m[1]].Fields[k])
                                        \in DOMAIN sources[m[2]].Fields}} :
           m \in DOMAIN methods}
ConverterKinds == {"SafeConverter", "ErrorReturningConverter", "ConverterNotFoundComment"}

\* C10: the statement generated for a bound, non-ignored field is a nested
\* mapping whenever the field has a nested reference (the sequence form when
\* both sides are sequences, the scalar form otherwise) and then invokes no
\* converter; it is a converter mapping only without a nested reference, and a
\* direct mapping only without either; and Validate records no converter
\* diagnostic for a field that has a nested reference.
C10_StrategyPriority ==
    /\ \A x \in Planned :
          LET f == dtos[x[1][1]].Fields[x[2]]
              sf == sources[x[1][2]].Fields[resolveSourceFieldName(f)]
              st == StatementOf(x[1], x[1][1], x[2])
          IN  /\ st.field = f.Name
              /\ IF f.NestedDTO # ""
                 THEN /\ st.kind = IF HasPrefix(f.Type, "[]") /\ HasPrefix(sf.Type, "[]")
                                   THEN "NestedSlice" ELSE "NestedScalar"
                      /\ st.converter = "" /\ st.nested = f.NestedDTO
                 ELSE IF f.ConverterTag # ""
                 THEN st.kind \in ConverterKinds
                 ELSE st.kind = "Direct"
    /\ Done => \A t \in Triples :
                  Nests(t) =>
                      /\ ~HasError(t, MsgConverterNotFound)
                      /\ ~HasError(t, MsgNotMarked)
                      /\ ~HasWarning(t, MsgIdenticalTypes)
                      /\ ~HasWarning(t, MsgNoInverter)
                      /\ ~HasError(t, MsgTypeMismatch)
                      /\ ~HasWarning(t, MsgPointerConversion)

\* C10 witness: a method was generated for a bound field that carries both a
\* nested reference and a converter tag, as a nested mapping without converter.
C10_Witness ==
    /\ \E x \in Planned :
          /\ dtos[x[1][1]].Fields[x[2]].NestedDTO # ""
          /\ dtos[x[1][1]].Fields[x[2]].ConverterTag # ""
          /\ StatementOf(x[1], x[1][1], x[2]).kind \in {"NestedSlice", "NestedScalar"}
          /\ StatementOf(x[1], x[1][1], x[2]).converter = ""

\* ------------------------------------------------- properties of the calls
Called == run.direction # ""
Returned == Called /\ run.env.status = "return"
Succeeded == Returned /\ run.env.err = <<>>
\* the statement group of field number j of the running method's DTO, 0 if
\* the field is ignored
GroupOf(j) ==
    IF dtos[run.dto].Fields[j].Ignore THEN 0
    ELSE 1 + Cardinality({k \in 1..j : ~dtos[run.dto].Fields[k].Ignore})
RunFields == 1..Len(dtos[run.dto].Fields)
RunField(j) == dtos[run.dto].Fields[j]
RunStmt(j) == Running.statements[GroupOf(j)]
\* where the running method reads field j from and where it writes it to
ReadLoc(j) ==
    IF run.direction = "MapFrom" THEN <<"src", ".", resolveSourceFieldName(RunField(j))>>
    ELSE <<"d", ".", RunField(j).Name>>
WrittenLoc(j) ==
    IF run.direction = "MapFrom" THEN <<"d", ".", RunField(j).Name>>
    ELSE <<"dst", ".", IF RunField(j).FieldTag # "" THEN RunField(j).FieldTag
                       ELSE RunField(j).Name>>
Bound2(j) == ReadLoc(j) \in DOMAIN run.env.store /\ WrittenLoc(j) \in DOMAIN run.env.store
Read(j) == run.env.store[ReadLoc(j)]
Written(j) == run.env.store[WrittenLoc(j)]
IsZero(v) == v \in {Nil, NilSlice, Val(<<>>)}

\* C11: Nil safety of the emitted code: a call of an emitted method, forward
\* or reverse, never dereferences a nil pointer and never makes a nested
\* MapFrom call on one; while the pointer a field is read from is nil the
\* field written holds its zero or nil value, and while a pointer element of
\* a nested sequence is nil the slot of a pointer-element target at the same
\* index is nil.
C11_NilSafety ==
    Called =>
        /\ run.env.status # "panic"
        /\ ~run.env.nilCall
        /\ \A j \in RunFields :
              Bound2(j) =>
                 /\ Read(j).kind = "nil" => IsZero(Written(j))
                 /\ RunField(j).NestedDTO # ""
                    /\ HasPrefix(RunField(j).Type, "[]")
                    /\ HasPrefix(TrimPrefix(RunField(j).Type, "[]"), "*")
                    /\ run.direction = "MapFrom"
                    => \A k \in DOMAIN Read(j).elems \cap DOMAIN Written(j).elems :
                          Read(j).elems[k].kind = "nil" => Written(j).elems[k] = Nil

\* a forward call returned success for a nested sequence of pointers mapped
\* to a sequence of pointers whose first element was nil and second was not
C11_Witness ==
    /\ Succeeded
    /\ run.direction = "MapFrom"
    /\ \E j \in RunFields :
          /\ GroupOf(j) # 0
          /\ RunStmt(j).kind = "NestedSlice"
          /\ Bound2(j)
          /\ Len(Read(j).elems) = 2
          /\ Len(Written(j).elems) = 2
          /\ Read(j).elems[1].kind = "nil"
          /\ Read(j).elems[2].kind = "ptr"
          /\ Written(j).elems[1] = Nil
          /\ Written(j).elems[2].kind = "ptr"

\* field j of the running method has a statement group and the call has
\* executed it without returning from inside it
Executed(j) ==
    /\ Called
    /\ GroupOf(j) # 0
    /\ run.pos > GroupOf(j)
    /\ run.env.status = "ok" \/ Succeeded
\* the running method maps field j by a plan of these kinds, from a source
\* and to a target of these pointer shapes
Shape(j, kinds, srcIsPointer, dstIsPointer) ==
    /\ GroupOf(j) # 0
    /\ RunStmt(j).kind \in kinds
    /\ RunStmt(j).srcIsPointer = srcIsPointer
    /\ RunStmt(j).dstIsPointer = dstIsPointer
\* the locations of local variables of the emitted block
IsLocal(loc) == loc[1] \in {"v", "result"}

\* C12: Scalar source to pointer target never aliases the source: once a
\* direct, converter or reverse plan for a non-pointer source and a pointer
\* target has run, a pointer stored in the target is the address of a local
\* variable of the emitted block (never of a field of the object read), and
\* that local holds the copied or converted value.
C12_NoAliasOfScalarSource ==
    Called =>
        \A j \in RunFields :
           /\ Shape(j, {"Direct", "SafeConverter", "ErrorReturningConverter"}, FALSE, TRUE)
           /\ Executed(j)
           /\ Bound2(j)
           /\ Written(j).kind = "ptr"
           => /\ IsLocal(Written(j).loc)
              /\ Written(j).loc # ReadLoc(j)
              /\ run.env.store[Written(j).loc] =
                    IF RunStmt(j).kind = "Direct" THEN Read(j)
                    ELSE Converted(<<RunStmt(j).converter>>, Read(j))

\* a reverse call has run a direct plan from a scalar DTO field to a pointer
\* target field, and the target points to a local that holds the value
C12_Witness ==
    /\ Succeeded
    /\ run.direction = "MapTo"
    /\ \E j \in RunFields :
          /\ Shape(j, {"Direct"}, FALSE, TRUE)
          /\ Bound2(j)
          /\ Written(j).kind = "ptr"
          /\ IsLocal(Written(j).loc)
          /\ run.env.store[Written(j).loc] = Read(j)

\* C13: Direct plan, pointer source to pointer target: once the plan has run,
\* the target is nil if the source pointer is nil, and otherwise points to a
\* copy of the source's pointee: an equal value at another location, so that
\* target and source do not share a pointee.
C13_PointerToPointerRewrap ==
    Called =>
        \A j \in RunFields :
           /\ Shape(j, {"Direct"}, TRUE, TRUE)
           /\ Executed(j)
           /\ Bound2(j)
           => /\ Read(j).kind = "nil" => Written(j) = Nil
              /\ Read(j).kind = "ptr" =>
                    /\ Written(j).kind = "ptr"
                    /\ Written(j).loc # Read(j).loc
                    /\ run.env.store[Written(j).loc] = run.env.store[Read(j).loc]

\* every invocation with an error result in the statements, at any depth, is
\* directly followed by the check that returns "<text> <name>: %w"
RECURSIVE ChecksFollow(_, _)
ChecksFollow(stmts, name) ==
    \A k \in DOMAIN stmts :
       /\ stmts[k].op = "Invoke" /\ stmts[k].text = <<"err">>
          => /\ k < Len(stmts)
             /\ stmts[k + 1].op = "IfErrReturn"
             /\ stmts[k + 1].text = <<"converting field", name>>
       /\ ChecksFollow(stmts[k].body, name)
\* the statements hold, at some depth, a statement of one of these ops
RECURSIVE Holds(_, _)
Holds(stmts, ops) ==
    \E k \in DOMAIN stmts : stmts[k].op \in ops \/ Holds(stmts[k].body, ops)
\* the statement groups of all emitted methods, forward and reverse
Groups ==
    UNION {{methods[m].statements[k] : k \in DOMAIN methods[m].statements} :
              m \in DOMAIN methods}
    \cup UNION {{reverse[m].statements[k] : k \in DOMAIN reverse[m].statements} :
                   m \in DOMAIN reverse}
\* the call has invoked the error-returning function of field j and it failed
FailedAt(j) ==
    /\ Called
    /\ GroupOf(j) # 0
    /\ RunStmt(j).kind = "ErrorReturningConverter"
    /\ RunStmt(j).converter \in run.env.failing
    /\ run.pos > GroupOf(j)
    /\ Bound2(j)
    /\ Read(j).kind # "nil"

\* C14: Fallible converter handling: in every emitted method, forward and
\* reverse, each invocation of an error-returning converter or inverter is
\* directly followed by a check that returns an error naming the DTO field
\* and wrapping the failure, and the statements of a safe converter hold no
\* such check; a call whose invocation fails returns that error at once: the
\* pointer target of the field is not stored and no later statement group
\* of the method is executed.
C14_FallibleConverterChecked ==
    /\ \A g \in Groups :
          /\ g.kind = "ErrorReturningConverter"
             => Holds(g.code, {"Invoke"}) /\ ChecksFollow(g.code, g.field)
          /\ g.kind = "SafeConverter"
             => Holds(g.code, {"Invoke"}) /\ ~Holds(g.code, {"IfErrReturn"})
    /\ Called =>
          \A j \in RunFields :
             FailedAt(j) =>
                /\ run.env.status = "return"
                /\ run.env.err = <<"converting field", RunField(j).Name, ":", "failed",
                                   RunStmt(j).converter>>
                /\ run.pos = GroupOf(j) + 1
                /\ run.env.invoked[Len(run.env.invoked)] = <<RunStmt(j).converter>>
                /\ RunStmt(j).dstIsPointer => Written(j) = Nil
                /\ \A l \in RunFields : l > j /\ Bound2(l) => IsZero(Written(l))

\* a forward call whose error-returning converter failed on a dereferenced
\* pointer source returned the wrapped error and left the later field G unset
C14_Witness ==
    /\ Returned
    /\ run.direction = "MapFrom"
    /\ \E j \in RunFields :
          /\ FailedAt(j)
          /\ RunStmt(j).srcIsPointer
          /\ run.env.err = <<"converting field", "F", ":", "failed", RunStmt(j).converter>>
          /\ \E l \in RunFields : l > j /\ GroupOf(l) # 0 /\ Bound2(l) /\ IsZero(Written(l))

\* the function a converter tag stands for in buildMethodBody
ConverterFunction(tag) == IF converterMap(tag) = "" THEN tag ELSE converterMap(tag)
\* a field that uses an error-returning converter, or a nested reference
UsesFallible(f) ==
    /\ f.ConverterTag # ""
    /\ ConverterFunction(f.ConverterTag) \in DOMAIN functions
    /\ IsErrorReturningConverterSignature(functions[ConverterFunction(f.ConverterTag)])
\* the DTO's non-ignored fields use no error-returning converter and no
\* nested reference
Eligible(d) ==
    \A j \in 1..Len(dtos[d].Fields) :
       LET f == dtos[d].Fields[j]
       IN  ~f.Ignore => ~UsesFallible(f) /\ f.NestedDTO = ""

\* C15: Safe-procedure eligibility: the method emitted for a (DTO, source)
\* pair has no error result exactly when the DTO's non-ignored fields use no
\* error-returning converter and no nested reference.
C15_SafeProcedureEligibility ==
    \A m \in DOMAIN methods : Eligible(m[1]) <=> ~methods[m].returnsError

\* field j of the running method is a nested sequence mapped from a sequence,
\* and the call has run its mapping to the end
SequenceMapped(j, srcElemIsPointer, dstElemIsPointer) ==
    /\ GroupOf(j) # 0
    /\ RunStmt(j).kind = "NestedSlice"
    /\ run.direction = "MapFrom"
    /\ HasPrefix(TrimPrefix(sources[run.other].Fields[ReadLoc(j)[3]].Type, "[]"), "*")
          = srcElemIsPointer
    /\ HasPrefix(TrimPrefix(RunField(j).Type, "[]"), "*") = dstElemIsPointer
    /\ Executed(j)
\* the indices of the non-nil elements
NonNil(elems) == {k \in DOMAIN elems : elems[k].kind # "nil"}

\* C16: Nested-sequence compaction law: once the emitted nested-sequence
\* mapping has completed, the destination is a sequence whose length is the
\* number of non-nil source elements for pointer elements mapped to value
\* elements, and the source's length for the three other element shapes,
\* whatever the source sequence (nil, empty or populated).
C16_CompactionLaw ==
    Called =>
        \A j \in RunFields : \A sp, dp \in BOOLEAN :
           SequenceMapped(j, sp, dp) =>
              /\ Written(j).kind = "slice"
              /\ Len(Written(j).elems) =
                    IF sp /\ ~dp THEN Cardinality(NonNil(Read(j).elems))
                    ELSE Len(Read(j).elems)
              /\ Len(Written(j).elems) <= Len(Read(j).elems)

\* a call has mapped a sequence of two pointers, the first of them nil, to a
\* sequence of one value
C16_Witness ==
    /\ Succeeded
    /\ \E j \in RunFields :
          /\ SequenceMapped(j, TRUE, FALSE)
          /\ Len(Read(j).elems) = 2
          /\ NonNil(Read(j).elems) = {2}
          /\ Len(Written(j).elems) = 1

\* what an element holds: the value itself, or the value a pointer points to
Pointee(v) == IF v.kind = "ptr" THEN run.env.store[v.loc] ELSE v
\* the nested mappings of the non-nil elements, in their order
RECURSIVE MappedNonNil(_)
MappedNonNil(elems) ==
    IF elems = <<>> THEN <<>>
    ELSE IF Head(elems).kind = "nil" THEN MappedNonNil(Tail(elems))
    ELSE <<Mapped(Pointee(Head(elems)))>> \o MappedNonNil(Tail(elems))

\* C17: Nested-sequence element correspondence: once the emitted mapping has
\* completed, for value to value, pointer to pointer and value to pointer
\* elements destination[i] is (or points to) the nested mapping of source[i]
\* at every index, each pointer destination element having a pointee of its
\* own, and for pointer to pointer destination[i] is nil exactly when
\* source[i] is nil; for pointer to value the destination is the sequence of
\* the nested mappings of the non-nil source elements in their order.
C17_ElementCorrespondence ==
    Called =>
        \A j \in RunFields : \A sp, dp \in BOOLEAN :
           SequenceMapped(j, sp, dp) =>
              IF sp /\ ~dp
              THEN Written(j).elems = MappedNonNil(Read(j).elems)
              ELSE /\ DOMAIN Written(j).elems = DOMAIN Read(j).elems
                   /\ \A k \in DOMAIN Read(j).elems :
                         LET from == Read(j).elems[k]
                             to == Written(j).elems[k]
                         IN  /\ dp = (to.kind \in {"ptr", "nil"})
                             /\ to.kind = "nil" <=> from.kind = "nil"
                             /\ from.kind # "nil" => Pointee(to) = Mapped(Pointee(from))
                             /\ \A l \in DOMAIN Written(j).elems :
                                   l # k /\ to.kind = "ptr" => Written(j).elems[l] # to

\* a call has mapped a sequence of two values to a sequence of two pointers
\* to their nested mappings
C17_Witness ==
    /\ Succeeded
    /\ \E j \in RunFields :
          /\ SequenceMapped(j, FALSE, TRUE)
          /\ Len(Read(j).elems) = 2
          /\ Len(Written(j).elems) = 2
          /\ \A k \in 1..2 : /\ Written(j).elems[k].kind = "ptr"
                             /\ Pointee(Written(j).elems[k]) = Mapped(Read(j).elems[k])

\* the ops of executable statements
Executable ==
    {"IfNotNil", "Block", "Assign", "Var", "Invoke", "InvokeMethod", "IfErrReturn",
     "ForRange", "Make", "Append", "Return"}
\* the planned field is a nested reference of which exactly one side, the
\* DTO field or the source field, is a sequence
ShapeMismatch(p) ==
    LET f == dtos[p[1][1]].Fields[p[2]]
    IN  /\ f.NestedDTO # ""
        /\ HasPrefix(f.Type, "[]")
              # sources[p[1][2]].Fields[resolveSourceFieldName(f)].IsSlice

\* C18: for a nested reference with a sequence on exactly one side (a
\* sequence target bound to a non-sequence source or the reverse) the
\* statement group emitted for the field is a placeholder comment and holds
\* no executable statement.
C18_UnsupportedShapePlaceholder ==
    \A p \in Planned :
       ShapeMismatch(p) =>
          LET g == StatementOf(p[1], p[1][1], p[2])
          IN  Holds(g.code, {"Comment"}) /\ ~Holds(g.code, Executable)

\* the emitted methods, forward and reverse, with the name of their argument
\* and the message of their guard
Bodies ==
    {[body |-> methods[m], arg |-> "src", text |-> "source is nil"] : m \in DOMAIN methods}
    \cup {[body |-> reverse[m], arg |-> "dst", text |-> "destination is nil"] :
             m \in DOMAIN reverse}
\* the argument's name and the guard's message of the running method
RunArg == IF run.direction = "MapFrom" THEN "src" ELSE "dst"
RunGuardText == IF run.direction = "MapFrom" THEN "source is nil" ELSE "destination is nil"

\* C19: Statement-sequence frame: the body of every emitted method, forward
\* and reverse, starts with the guard that returns an error when the source
\* (destination) argument is nil and ends with return nil, also for a DTO with
\* no field or only ignored fields; a call with a nil argument returns the
\* guard's error after the first statement, before any field statement, and
\* a call that runs past the last statement has returned.
C19_StatementFrame ==
    /\ \A b \in Bodies :
          /\ Len(b.body.statements) >= 2
          /\ b.body.statements[1].code = << GuardNil(<<b.arg>>, <<b.text>>) >>
          /\ b.body.statements[Len(b.body.statements)].code = << ReturnNil >>
    /\ Called =>
          /\ run.env.argNil /\ run.pos > 1
             => /\ run.env.status = "return"
                /\ run.env.err = <<RunGuardText>>
                /\ run.pos = 2
                /\ run.env.invoked = <<>>
                /\ run.env.nested = 0
                /\ \A l \in DOMAIN run.env.store : l[1] # RunArg
                /\ \A j \in RunFields :
                      WrittenLoc(j) \in DOMAIN run.env.store => IsZero(Written(j))
          /\ run.pos > Len(Running.statements) => Returned
          /\ Succeeded => run.pos = Len(Running.statements) + 1

\* a call of the method of a DTO whose only field is ignored ran the guard
\* and the final return, and returned success
C19_Witness ==
    /\ Succeeded
    /\ Len(dtos[run.dto].Fields) = 1
    /\ dtos[run.dto].Fields[1].Ignore
    /\ Len(Running.statements) = 2
    /\ run.pos = 3

\* the ignored fields of a DTO, by index
IgnoredOf(d) == {j \in 1..Len(dtos[d].Fields) : dtos[d].Fields[j].Ignore}
\* the method body has no statement group for the ignored fields of d, and
\* its summary lists their names
LeavesOut(body, d) ==
    /\ Len(body.statements) = 2 + Len(dtos[d].Fields) - Cardinality(IgnoredOf(d))
    /\ \A j \in IgnoredOf(d) :
          /\ \A k \in DOMAIN body.statements :
                body.statements[k].field # dtos[d].Fields[j].Name
          /\ \E k \in DOMAIN body.ignoredFields :
                body.ignoredFields[k] = dtos[d].Fields[j].Name
\* the diagnostics recorded so far
Diagnostics ==
    {result.Errors[i] : i \in DOMAIN result.Errors}
    \cup {result.Warnings[i] : i \in DOMAIN result.Warnings}

\* C20: Ignored fields: for every field marked ignored, whatever its type,
\* converter tag, nested DTO or field tag, every emitted method of its DTO,
\* forward and reverse, has no statement group for it (so that a call never
\* writes the field) and lists its name among the ignored fields, and
\* Validate records no diagnostic for it.
C20_IgnoredFields ==
    /\ \A m \in DOMAIN methods : LeavesOut(methods[m], m[1])
    /\ \A m \in DOMAIN reverse : LeavesOut(reverse[m], m[1])
    /\ \A d \in DOMAIN dtos : \A j \in IgnoredOf(d) :
          \A e \in Diagnostics : ~(e.DTO = d /\ e.Field = dtos[d].Fields[j].Name)
    /\ Called /\ run.direction = "MapFrom"
       => \A j \in IgnoredOf(run.dto) :
             WrittenLoc(j) \in DOMAIN run.env.store => IsZero(Written(j))

\* Validate has returned and the forward and the reverse method have been
\* emitted for a bidirectional DTO whose ignored field carries a converter
\* tag, a nested DTO and a field tag
C20_Witness ==
    /\ Done
    /\ \E m \in DOMAIN methods \cap DOMAIN reverse :
          \E j \in IgnoredOf(m[1]) :
             /\ dtos[m[1]].Fields[j].ConverterTag # ""
             /\ dtos[m[1]].Fields[j].NestedDTO # ""
             /\ dtos[m[1]].Fields[j].FieldTag # ""
             /\ LeavesOut(methods[m], m[1])
             /\ LeavesOut(reverse[m], m[1])


\* ------------------------------------------- properties of the two directions
\* the statement group of field j of DTO d in the reverse method m
ReverseStatementOf(m, d, j) ==
    reverse[m].statements[1 + Cardinality({k \in 1..j : ~dtos[d].Fields[k].Ignore})]
\* the field of the triple is mapped through a registered converter that no
\* function is registered to invert, in a bidirectional DTO
LacksInverter(t) ==
    /\ dtos[t[1]].Bidirectional
    /\ IsBound(t)
    /\ TField(t).NestedDTO = ""
    /\ TField(t).ConverterTag \in DOMAIN functions
    /\ functions[TField(t).ConverterTag].IsConverter
    /\ InvertersOf(TField(t).ConverterTag) = {}
\* the reverse method maps field k of the DTO: its group assigns dst's field
MapsBack(m, k) ==
    LET st == ReverseStatementOf(m, m[1], k)
    IN  /\ st.field = dtos[m[1]].Fields[k].Name
        /\ st.kind = "Direct"
        /\ \E i \in DOMAIN st.code : st.code[i].op # "Comment"

\* C21: in a bidirectional DTO, for a bound field mapped through a registered
\* converter that has no registered inverter, the finished validation holds a
\* Warning about the missing inverter and no Error for the field; the forward
\* method maps the field with the converter; the reverse method has only the
\* skip comment for it, lists it among the skipped fields, maps the other
\* directly mappable fields and ends with the success return
C21_MissingInverterDegrades ==
    \A t \in Triples : LacksInverter(t) =>
        LET m == <<t[1], TSource(t)>>
            f == TField(t)
        IN  /\ Done => HasWarning(t, MsgNoInverter) /\ ErrorsOf(t) = {}
            /\ m \in DOMAIN methods =>
                  /\ StatementOf(m, t[1], t[3]).field = f.Name
                  /\ StatementOf(m, t[1], t[3]).kind
                        \in {"SafeConverter", "ErrorReturningConverter"}
                  /\ StatementOf(m, t[1], t[3]).converter = ConverterFunction(f.ConverterTag)
            /\ m \in DOMAIN reverse =>
                  LET body == reverse[m]
                      st == ReverseStatementOf(m, t[1], t[3])
                  IN  /\ st.code = << Comment(<<f.Name, "converter has no inverter, skipped">>) >>
                      /\ \E k \in DOMAIN body.ignoredFields : body.ignoredFields[k] = f.Name
                      /\ Len(body.statements)
                            = 2 + Len(dtos[t[1]].Fields) - Cardinality(IgnoredOf(t[1]))
                      /\ body.statements[Len(body.statements)].code = << ReturnNil >>
                      /\ \A k \in 1..Len(dtos[t[1]].Fields) :
                            LET g == dtos[t[1]].Fields[k]
                            IN  /\ k # t[3] /\ ~g.Ignore /\ g.NestedDTO = ""
                                /\ g.ConverterTag = ""
                                /\ resolveSourceFieldName(g) \in DOMAIN sources[m[2]].Fields
                                /\ ExtractBaseType(g.Type)
                                      = sources[m[2]].Fields[resolveSourceFieldName(g)].BaseType
                                => MapsBack(m, k)
\* validation is finished and both methods are generated for a DTO whose
\* converted field has no inverter and whose other field is mapped back
C21_Witness ==
    /\ Done
    /\ \E t \in Triples :
          /\ LacksInverter(t)
          /\ <<t[1], TSource(t)>> \in DOMAIN methods \cap DOMAIN reverse
          /\ \E k \in 1..Len(dtos[t[1]].Fields) :
                k # t[3] /\ MapsBack(<<t[1], TSource(t)>>, k)


\* the transform of field names that the configuration file requests
FieldNameTransform ==
    IF "FieldNameTransform" \in DOMAIN cfg THEN cfg.FieldNameTransform ELSE ""
\* the source field names that the resolution order allows for a field:
\* the explicit source name; else, under a requested transform, the source
\* fields whose transformed name is the field's name; else the field's name
ResolutionOrder(field, source) ==
    LET transformed == {n \in DOMAIN source.Fields : SnakeToCamel(n) = Spelling(field.Name)}
    IN  IF field.FieldTag # "" THEN {field.FieldTag}
        ELSE IF FieldNameTransform = "snake_to_camel" /\ transformed # {} THEN transformed
        ELSE {field.Name}
\* the validator reports the field's source field as missing
ReportedMissing(t) == HasError(t, MsgSourceField) \/ HasWarning(t, MsgSourceFieldZero)

\* C22: every field that is looked at resolves to a source field name that the
\* resolution order allows (explicit source name, else the source field whose
\* transliteration is the field's name when the naming policy requests one,
\* else the field's own name), and validator and generator resolve it alike:
\* the validator reports the source field missing exactly when the generated
\* method has the not-found comment for the field
C22_ResolutionOrder ==
    \A t \in Triples : Checked(t) =>
        LET m == <<t[1], TSource(t)>>
            allowed == ResolutionOrder(TField(t), sources[TSource(t)])
        IN  /\ resolveSourceFieldName(TField(t)) \in allowed
            /\ Done /\ m \in DOMAIN methods =>
                  /\ ReportedMissing(t)
                        <=> StatementOf(m, t[1], t[3]).kind = "NotFoundComment"
                  /\ allowed \subseteq DOMAIN sources[TSource(t)].Fields
                        => ~ReportedMissing(t)


\* ----------------------------------------- properties of the emitted registry
\* goroutine p holds the lock, for reading or for writing
HoldsLock(p) == convertersMu.writer = p \/ p \in convertersMu.readers
\* goroutine p is inside a converter that Convert invoked
Invoking(p) == \E i \in 1..Depth(p) : frames[p][i].fn = "converter"

ConvertOutcomes == {outcome[p] : p \in {q \in Procs : outcome[q].fn = "Convert"}}
NotRegistered(o) == o.ret.err = "converter %s not registered"
WrongType(o) == o.ret.err = "converter %s has wrong type"
\* the function the lookup found has the type arguments of the call
TypesMatch(o) == o.seen.from = o.types[1] /\ o.seen.to = o.types[2]

\* C24: a returned call of Convert has one of three outcomes: the
\* not-registered failure exactly when the lookup found no function under the
\* name; the wrong-type failure exactly when it found one whose parameter or
\* result type differs from the call's type arguments; otherwise exactly what
\* the found function returns for the value. In both failures the function
\* has not been invoked and the returned value is the zero value of To
C24_ConvertOutcome ==
    \A o \in ConvertOutcomes :
        /\ NotRegistered(o) <=> o.seen = NoFn
        /\ WrongType(o) <=> o.seen # NoFn /\ ~TypesMatch(o)
        /\ NotRegistered(o) \/ WrongType(o)
              => ~o.invoked /\ o.ret.value = ZeroOf(o.types[2])
        /\ ~NotRegistered(o) /\ ~WrongType(o)
              => o.invoked /\ o.ret = Apply(o.seen, o.value)
\* one goroutine has got the wrong-type failure and another a converted
\* value, while a name is still not registered
C24_Witness ==
    \E p, q \in Procs :
        /\ p # q
        /\ outcome[p].fn = "Convert" /\ WrongType(outcome[p])
        /\ outcome[q].fn = "Convert" /\ outcome[q].invoked
        /\ outcome[q].ret.err = "" /\ outcome[q].ret.value # ZeroOf(outcome[q].types[2])
        /\ \E n \in Names : n \notin DOMAIN converters


\* ------------------------------------------------ properties of the type texts
\* a type text without its leading wrapper, if it has one
WithoutOneWrapper(type) ==
    IF HasPrefix(type, "*") \/ HasPrefix(type, "[]") THEN Tail(type) ELSE type

\* C25: for the declared type of every field that validation has looked at,
\* extractBaseType is the type without exactly one leading wrapper, any inner
\* wrapper kept: "*T" and "[]T" give "T", "[]*T" gives "*T", "*[]T" gives "[]T"
C25_OneWrapperRemoved ==
    Done => \A t \in Triples : Checked(t) =>
                extractBaseType(TField(t).Type) = WithoutOneWrapper(TField(t).Type)


\* --------------------------------- properties of validator and generator together
\* the statement group of a direct field is the bare assignment d.F = src.X
BareAssignment(t) ==
    StatementOf(<<t[1], TSource(t)>>, t[1], t[3]).code
        = << Assign(<<"d", ".", TField(t).Name>>,
                    <<"src", ".", resolveSourceFieldName(TField(t))>>) >>

\* C26: for every direct field that the finished validation has no Error
\* for, the generated method does not take buildFieldMapping's branch for
\* differing base types, and adapts the pointer shape: the bare assignment
\* is emitted only when target and source are both pointers or both values
C26_AcceptedPairsAdapted ==
    Done => \A t \in Triples :
               /\ IsDirect(t)
               /\ ErrorsOf(t) = {}
               /\ <<t[1], TSource(t)>> \in DOMAIN methods
               => /\ ExtractBaseType(TField(t).Type) = TSourceField(t).BaseType
                  /\ BareAssignment(t) => TargetIsPointer(t) = SourceIsPointer(t)


\* C27: a direct field that the finished validation has no Error for agrees
\* with its source field on being a sequence: a slice target is not accepted
\* against a source that is no slice, nor the reverse
C27_SequenceAgreement ==
    Done => \A t \in Triples :
               IsDirect(t) /\ ErrorsOf(t) = {}
               => HasPrefix(TField(t).Type, "[]") = TSourceField(t).IsSlice


\* C28: for every bound, non-ignored field with a converter tag and no nested
\* reference, the finished validation has no converter-not-found Error for
\* the field exactly when the generated method has a converter call for it,
\* and not the converter-not-found comment
C28_ConverterResolutionAgrees ==
    Done => \A t \in Triples :
               /\ IsBound(t)
               /\ TField(t).ConverterTag # ""
               /\ TField(t).NestedDTO = ""
               /\ <<t[1], TSource(t)>> \in DOMAIN methods
               => (~HasError(t, MsgConverterNotFound)
                   <=> StatementOf(<<t[1], TSource(t)>>, t[1], t[3]).kind
                          \in {"SafeConverter", "ErrorReturningConverter"})


\* ---------------------------------------------- properties of failing calls
\* C29: once the invocation of an error-returning converter or inverter has
\* failed in a call of an emitted method, whatever the pointer shapes of
\* source and target, the field being mapped still holds the value it had
\* before the call (the zero value of the object written), and so does every
\* later field
C29_FailedFieldUntouched ==
    Called => \A j \in RunFields :
                 FailedAt(j) =>
                    /\ IsZero(Written(j))
                    /\ \A l \in RunFields : l > j /\ Bound2(l) => IsZero(Written(l))


\* ------------------------------------------------ properties of the round trip
\* the forward call has returned without error and the reverse call on its
\* result has, too
RoundTripDone == run.direction = "RoundTrip" /\ Succeeded
\* field j is mapped directly in both directions, its base types matching
DirectBothWays(j) ==
    /\ GroupOf(j) # 0
    /\ methods[<<run.dto, run.other>>].statements[GroupOf(j)].kind = "Direct"
    /\ RunStmt(j).kind = "Direct"
    /\ ExtractBaseType(RunField(j).Type)
          = sources[run.other].Fields[resolveSourceFieldName(RunField(j))].BaseType
\* two field values are the same: both nil, or pointers to equal values, or
\* equal values
SameValue(a, b) ==
    /\ a.kind = b.kind
    /\ IF a.kind = "ptr" THEN run.env.store[a.loc] = run.env.store[b.loc] ELSE a = b

\* C30: after a forward call into a fresh DTO and a reverse call from it into
\* a fresh source object, every field that is mapped directly both ways with
\* matching base types has in the new source object the value it has in the
\* original one, a nil pointer included, whatever the pointer shapes
C30_RoundTrip ==
    RoundTripDone =>
        \A j \in RunFields :
           DirectBothWays(j) =>
              SameValue(run.env.store[<<"src", ".", resolveSourceFieldName(RunField(j))>>],
                        Written(j))

====
